---- MODULE Spec2Model ----
(***************************************************************************)
(* swayimg: the application event queue and main loop (src/application.c). *)
(*                                                                         *)
(* The model has one consumer context (the thread that runs app_run and    *)
(* every callback) and producer threads that call the app_on_* / app_redraw*)
(* entry points.  Each function is cut at the points where another context *)
(* can observe or change the shared state: taking events_lock, the         *)
(* critical section up to the unlock, malloc, notification_raise.          *)
(***************************************************************************)
EXTENDS Integers, Sequences, FiniteSets, TLC

(***************************************************************************)
(* Bounds of the model.                                                    *)
(***************************************************************************)
\* Number of entry-point calls the producer threads make in one behaviour.
MaxCalls == 3
\* Number of entry-point calls of the single producer of SeqSpec.
MaxSeqCalls == 4
\* Number of entry-point calls, and of signals, in a behaviour of the fair
\* specifications.
MaxFairCalls == 2
MaxSignals == 1
\* Number of app_watch calls made from callbacks while app_run is running.
MaxWatches == 1

\* Producer threads (loader thread, gallery thread, ...).
Producers == {"p1", "p2"}
\* The consumer context: the thread running app_run.
Main == "main"
Threads == Producers \cup {Main}
\* The context of on_signal, which runs on top of the thread it interrupts.
Sig == "sig"
Contexts == Threads \cup {Sig}
\* Value of events_lock when nobody holds it.
NoThread == "none"

\* enum loop_state
LoopStates == {"loop_run", "loop_stop", "loop_error"}

\* Actions with a common handler (apply_common_action) and one without.
CommonActions ==
    {"action_info", "action_status", "action_fullscreen", "action_help",
     "action_exit"}
OtherActions == {"action_reload", "action_next_file", "action_mode"}

\* The signals with a handler, and ctx.sigusr1 / ctx.sigusr2 as load_config
\* fills them: one action each, neither with a common handler.
Signals == {"SIGUSR1", "SIGUSR2"}
SigAction(signum) ==
    IF signum = "SIGUSR1" THEN <<"action_reload">> ELSE <<"action_next_file">>

\* Deltas passed to app_on_drag.
DragDeltas == {<<3, 4>>, <<-1, 2>>, <<1, 1>>}

(***************************************************************************)
(* struct event, as a record; seq is the position of the node in the       *)
(* order of list_append calls (0 while the node is not in the list).       *)
(***************************************************************************)
Event(type, dx, dy, image, action) ==
    [type |-> type, dx |-> dx, dy |-> dy, image |-> image,
     action |-> action, seq |-> 0]

RedrawEvent == Event("event_redraw", 0, 0, 0, "none")
ResizeEvent == Event("event_resize", 0, 0, 0, "none")
DragEvent(dx, dy) == Event("event_drag", dx, dy, 0, "none")
LoadEvent(image) == Event("event_load", 0, 0, image, "none")
ActionEvent(action) == Event("event_action", 0, 0, 0, action)
\* entry == NULL
NoEntry == Event("none", 0, 0, 0, "none")

(***************************************************************************)
(* The intrusive list (list.h), as a sequence: head first.                 *)
(***************************************************************************)
\* A list_append that inserts at the head.
list_prepend(head, entry) == <<entry>> \o head

list_append(head, entry) == Append(head, entry)

list_remove(head, i) == SubSeq(head, 1, i - 1) \o SubSeq(head, i + 1, Len(head))

list_is_last(head, i) == i = Len(head)

\* list_for_each ... if (it->event.type == type): index of the first match, 0
\* when the scan ends without one.
FirstOfType(head, type) ==
    IF \E i \in 1..Len(head) : head[i].type = type
    THEN CHOOSE i \in 1..Len(head) :
            /\ head[i].type = type
            /\ \A j \in 1..(i - 1) : head[j].type # type
    ELSE 0

CountOfType(head, type) == Cardinality({i \in 1..Len(head) : head[i].type = type})

(***************************************************************************)
(* State.                                                                  *)
(***************************************************************************)
VARIABLES
    \* struct application ctx
    events,          \* ctx.events: the event queue, head first
    events_lock,     \* ctx.events_lock: the thread holding it, or NoThread
    event_signal,    \* ctx.event_signal: TRUE while the notification is raised
    state,           \* ctx.state
    wfds,            \* ctx.wfds[0..wfds_num): the registered callbacks, in order
    help_active,     \* info_help_active(): the help overlay is shown
    \* the consumer: app_run and the callback it is in
    cpc,             \* position in app_run / handle_event_queue / app_destroy
    fds,             \* app_run's poll array: revents & POLLIN of each entry
    idx,             \* app_run's scan index i (1-based)
    entry,           \* handle_event_queue's popped entry, NoEntry for NULL
    ret,             \* app_run's return value, once it has returned
    \* every context that can be inside an append entry point
    ppc,             \* position of each thread in app_redraw/app_on_drag/append_event
    pev,             \* the event each thread is appending
    pseq,            \* app_on_keyboard, on_signal: the actions still to append
    interrupted,     \* the thread on_signal is running on, NoThread outside it
    \* history (not program state)
    nappend,         \* number of list_append calls made so far
    ncalls,          \* number of entry-point calls made by the producer threads
    lastDispatched,  \* seq of the event dispatched last, 0 before the first
    nimages,         \* number of images passed to app_on_load so far
    released,        \* per image: how many times it was released
    exits,           \* the codes app_exit was called with, in call order
    pollEvent,       \* outcome of the last wait: "none", "ok", "eintr", "error"
    nsignals,        \* number of signals delivered so far
    pre,             \* SeqSpec: the queue state when the last call was made
    \* the mode dispatch
    mode,            \* ctx.ehandler: the active mode handler
    lastRoute,       \* where the popped entry was dispatched to, "none" before
    activations,     \* the activate events delivered: index and handler
    exitCaller,      \* who called app_exit first: "none", "handler", "callback"
    drags,           \* sums of the deltas passed to app_on_drag and dispatched
    \* canvas.c
    canvas,          \* static struct canvas ctx
    canvas_ops,      \* number of operations made on the canvas
    canvas_op,       \* the operation made last, "none" before the first
    canvas_call,     \* the arguments and the return value of that operation
    window_was_reset \* canvas_reset_window was called before

ctxVars == <<events, events_lock, event_signal, state, wfds, help_active>>
consumerVars == <<cpc, fds, idx, entry, ret>>
producerVars == <<ppc, pev, pseq, interrupted>>
seqHistory == <<nsignals, pre>>
modeVars == <<mode, lastRoute, activations>>
canvasVars == <<canvas, canvas_ops, canvas_op, canvas_call, window_was_reset>>
sideVars == <<modeVars, canvasVars, exitCaller, drags>>
historyVars == <<nappend, ncalls, lastDispatched, nimages, released,
                 exits, pollEvent, seqHistory, sideVars>>
appVars == <<ctxVars, consumerVars, producerVars, nappend, ncalls,
             lastDispatched, nimages, released, exits, pollEvent, seqHistory,
             modeVars, exitCaller, drags>>
vars == <<ctxVars, consumerVars, producerVars, historyVars>>

\* Image handles: the n-th image passed to app_on_load is n.
Images == 1..(IF MaxCalls > MaxSeqCalls THEN MaxCalls ELSE MaxSeqCalls)

\* The value of pre before the first call of SeqSpec.
NoCall ==
    [op |-> <<"none">>, events |-> <<>>, event_signal |-> FALSE, nappend |-> 0]

(***************************************************************************)
(* append_event and the entry points built on it, for a thread t.          *)
(***************************************************************************)
\* The sum of two displacements.
Add2(a, b) == <<a[1] + b[1], a[2] + b[2]>>

\* The record of the drags before the first call: the sum of the (dx, dy)
\* passed to app_on_drag, the sum of the deltas of the drag events dispatched,
\* the number of drag events dropped because malloc failed.  The record is a
\* history of the run that the program does not hold; it is kept only in the
\* specification of the drags, and stays as it starts in the others.
NoDrags ==
    [kept |-> FALSE, requested |-> <<0, 0>>, dispatched |-> <<0, 0>>,
     failed |-> 0]

KeptDrags == [NoDrags EXCEPT !.kept = TRUE]

\* A context is outside every entry point.
Idle(t) == ppc[t] = "idle"

\* A thread runs unless on_signal is executing on it.
Running(t) == interrupted # t

\* Context t is at the statement loc of an entry point and can execute it.
At(t, loc) == ppc[t] = loc /\ Running(t)

\* The consumer is at the statement loc of app_run or handle_event_queue.
MainAt(loc) == cpc = loc /\ Running(Main)

\* The entry point returns; app_on_keyboard's loop goes on to its next action.
Return(t) ==
    IF pseq[t] # <<>>
    THEN /\ ppc' = [ppc EXCEPT ![t] = "ap_malloc"]
         /\ pev' = [pev EXCEPT ![t] = ActionEvent(Head(pseq[t]))]
         /\ pseq' = [pseq EXCEPT ![t] = Tail(pseq[t])]
    ELSE /\ ppc' = [ppc EXCEPT ![t] = "idle"]
         /\ pev' = [pev EXCEPT ![t] = NoEntry]
         /\ pseq' = pseq

\* pthread_mutex_lock(&ctx.events_lock): blocks while another holder exists.
pthread_mutex_lock(t) ==
    /\ events_lock = NoThread
    /\ events_lock' = t

\* app_redraw, entry: the event is built, then the lock is requested.
app_redraw(t) ==
    /\ ppc' = [ppc EXCEPT ![t] = "rd_lock"]
    /\ pev' = [pev EXCEPT ![t] = RedrawEvent]

\* A scan that removes nothing.
RedrawScanKeeps(head) == head

\* The queue after app_redraw's scan.
RedrawScanQueue(head) ==
    LET i == FirstOfType(head, "event_redraw")
    IN  IF i # 0 /\ ~list_is_last(head, i) THEN list_remove(head, i) ELSE head

\* app_redraw's scan returns early: the first redraw found is the last entry.
RedrawScanReturns(head) ==
    LET i == FirstOfType(head, "event_redraw")
    IN  i # 0 /\ list_is_last(head, i)

\* app_redraw: pthread_mutex_lock.
rd_lock(t) ==
    /\ At(t, "rd_lock")
    /\ pthread_mutex_lock(t)
    /\ ppc' = [ppc EXCEPT ![t] = "rd_scan"]
    /\ UNCHANGED <<events, event_signal, state, wfds, help_active>>
    /\ UNCHANGED <<consumerVars, pev, pseq, interrupted, historyVars>>

\* app_redraw: the scan under the lock, up to the unlock.
rd_scan(t) ==
    /\ At(t, "rd_scan")
    /\ events_lock = t
    /\ events' = RedrawScanQueue(events)
    /\ events_lock' = NoThread
    /\ IF RedrawScanReturns(events)
       THEN Return(t)
       ELSE /\ ppc' = [ppc EXCEPT ![t] = "ap_malloc"]
            /\ UNCHANGED <<pev, pseq>>
    /\ UNCHANGED <<event_signal, state, wfds, help_active>>
    /\ UNCHANGED <<consumerVars, interrupted, historyVars>>

\* app_on_drag, entry.
app_on_drag(t, dx, dy) ==
    /\ ppc' = [ppc EXCEPT ![t] = "dg_lock"]
    /\ pev' = [pev EXCEPT ![t] = DragEvent(dx, dy)]

\* A merge that overwrites the deltas of the first drag.
DragScanOverwrite(head, dx, dy) ==
    LET i == FirstOfType(head, "event_drag")
    IN  IF i # 0
        THEN [head EXCEPT ![i].dx = dx, ![i].dy = dy]
        ELSE head

\* The queue after app_on_drag's scan merged (dx, dy) into the first drag.
DragScanQueue(head, dx, dy) ==
    LET i == FirstOfType(head, "event_drag")
    IN  IF i # 0
        THEN [head EXCEPT ![i].dx = @ + dx, ![i].dy = @ + dy]
        ELSE head

\* A scan that goes on to append_event after a merge.
DragScanNeverReturns(head) == FALSE

\* app_on_drag's scan found a drag and returns.
DragScanReturns(head) == FirstOfType(head, "event_drag") # 0

\* app_on_drag: pthread_mutex_lock.
dg_lock(t) ==
    /\ At(t, "dg_lock")
    /\ pthread_mutex_lock(t)
    /\ ppc' = [ppc EXCEPT ![t] = "dg_scan"]
    /\ UNCHANGED <<events, event_signal, state, wfds, help_active>>
    /\ UNCHANGED <<consumerVars, pev, pseq, interrupted, historyVars>>

\* app_on_drag: the scan under the lock, up to the unlock.
dg_scan(t) ==
    /\ At(t, "dg_scan")
    /\ events_lock = t
    /\ events' = DragScanQueue(events, pev[t].dx, pev[t].dy)
    /\ events_lock' = NoThread
    /\ IF DragScanReturns(events)
       THEN Return(t)
       ELSE /\ ppc' = [ppc EXCEPT ![t] = "ap_malloc"]
            /\ UNCHANGED <<pev, pseq>>
    /\ UNCHANGED <<event_signal, state, wfds, help_active>>
    /\ UNCHANGED <<consumerVars, interrupted, historyVars>>

\* app_on_resize, app_on_load, app_reload: append_event of the event built.
append_event(t, event) ==
    /\ ppc' = [ppc EXCEPT ![t] = "ap_malloc"]
    /\ pev' = [pev EXCEPT ![t] = event]

\* append_event: malloc; on NULL the function returns and the event is dropped.
ap_malloc(t) ==
    /\ At(t, "ap_malloc")
    /\ \/ /\ ppc' = [ppc EXCEPT ![t] = "ap_lock"]
          /\ UNCHANGED <<pev, pseq, drags>>
       \/ /\ Return(t)
          /\ drags' = IF drags.kept /\ pev[t].type = "event_drag"
                      THEN [drags EXCEPT !.failed = @ + 1]
                      ELSE drags
    /\ UNCHANGED <<ctxVars, consumerVars, interrupted>>
    /\ UNCHANGED <<nappend, ncalls, lastDispatched, nimages, released, exits,
                   pollEvent, seqHistory, modeVars, canvasVars, exitCaller>>

\* append_event: pthread_mutex_lock.
ap_lock(t) ==
    /\ At(t, "ap_lock")
    /\ pthread_mutex_lock(t)
    /\ ppc' = [ppc EXCEPT ![t] = "ap_insert"]
    /\ UNCHANGED <<events, event_signal, state, wfds, help_active>>
    /\ UNCHANGED <<consumerVars, pev, pseq, interrupted, historyVars>>

\* append_event: list_append under the lock, and the unlock.
ap_insert(t) ==
    /\ At(t, "ap_insert")
    /\ events_lock = t
    /\ events' = list_append(events, [pev[t] EXCEPT !.seq = nappend + 1])
    /\ nappend' = nappend + 1
    /\ events_lock' = NoThread
    /\ ppc' = [ppc EXCEPT ![t] = "ap_raise"]
    /\ UNCHANGED <<event_signal, state, wfds, help_active>>
    /\ UNCHANGED <<consumerVars, pev, pseq, interrupted>>
    /\ UNCHANGED <<ncalls, lastDispatched, nimages, released, exits,
                   pollEvent, seqHistory, sideVars>>

\* append_event: notification_raise, and the return.
ap_raise(t) ==
    /\ At(t, "ap_raise")
    /\ event_signal' = TRUE
    /\ Return(t)
    /\ UNCHANGED <<events, events_lock, state, wfds, help_active>>
    /\ UNCHANGED <<consumerVars, interrupted, historyVars>>

(***************************************************************************)
(* The entry points, as called by a context.                               *)
(***************************************************************************)
\* keybind_find: the actions bound to a key, <<>> for a key that is not bound.
Keybind(key) ==
    CASE key = "k_exit" -> <<"action_exit">>
      [] key = "k_info" -> <<"action_info">>
      [] key = "k_help" -> <<"action_help">>
      [] key = "k_fullscreen" -> <<"action_fullscreen">>
      [] key = "k_reload_exit" -> <<"action_reload", "action_exit">>
      [] key = "k_mode" -> <<"action_mode">>
      [] OTHER -> <<>>

\* app_on_keyboard: the first append of the key's actions, or, for a key that
\* is not bound, info_update and app_redraw.
app_on_keyboard(t, key) ==
    LET actions == Keybind(key)
    IN  IF actions # <<>>
        THEN /\ ppc' = [ppc EXCEPT ![t] = "ap_malloc"]
             /\ pev' = [pev EXCEPT ![t] = ActionEvent(Head(actions))]
             /\ pseq' = [pseq EXCEPT ![t] = Tail(actions)]
        ELSE /\ app_redraw(t)
             /\ pseq' = pseq

\* The calls a context can make: <<name, arguments...>>.
RedrawOp == <<"app_redraw">>
ResizeOp == <<"app_on_resize">>
LoadOp == <<"app_on_load">>
DragOps == {<<"app_on_drag", d[1], d[2]>> : d \in DragDeltas}
KeyOps(keys) == {<<"app_on_keyboard", k>> : k \in keys}

\* Context t enters the entry point op.
EntryPoint(t, op, max) ==
    /\ Idle(t)
    /\ Running(t)
    /\ ncalls < max
    /\ cpc # "destroyed"
    /\ ncalls' = ncalls + 1
    /\ CASE op[1] = "app_redraw" ->
                /\ app_redraw(t)
                /\ UNCHANGED <<pseq, nimages>>
         [] op[1] = "app_on_resize" ->
                /\ append_event(t, ResizeEvent)
                /\ UNCHANGED <<pseq, nimages>>
         [] op[1] = "app_on_drag" ->
                /\ app_on_drag(t, op[2], op[3])
                /\ UNCHANGED <<pseq, nimages>>
         [] op[1] = "app_on_load" ->
                /\ append_event(t, LoadEvent(nimages + 1))
                /\ nimages' = nimages + 1
                /\ pseq' = pseq
         [] op[1] = "app_on_keyboard" ->
                /\ app_on_keyboard(t, op[2])
                /\ UNCHANGED nimages
    /\ drags' = IF drags.kept /\ op[1] = "app_on_drag"
                THEN [drags EXCEPT !.requested = Add2(@, <<op[2], op[3]>>)]
                ELSE drags
    /\ UNCHANGED <<ctxVars, consumerVars, interrupted, modeVars, canvasVars,
                   exitCaller>>
    /\ UNCHANGED <<nappend, lastDispatched, released, exits, pollEvent, nsignals>>

\* A producer thread calls an entry point.
ProducerCall(t, ops, max) ==
    /\ \E op \in ops : EntryPoint(t, op, max)
    /\ UNCHANGED pre

\* One step of a context inside an entry point.
AppendStep(t) ==
    \/ rd_lock(t)
    \/ rd_scan(t)
    \/ dg_lock(t)
    \/ dg_scan(t)
    \/ ap_malloc(t)
    \/ ap_lock(t)
    \/ ap_insert(t)
    \/ ap_raise(t)

(***************************************************************************)
(* app_exit, and what the external code called by the consumer can do.     *)
(***************************************************************************)
\* app_exit: ctx.state = rc ? loop_error : loop_stop.
ExitState(rc) == IF rc # 0 THEN "loop_error" ELSE "loop_stop"

app_exit(rc) ==
    /\ state' = ExitState(rc)
    /\ exits' = Append(exits, rc)

\* Exit codes the external callbacks and mode handlers pass to app_exit.
ExitCodes == {0, 1}

\* What one external callback or mode handler does with app_exit: the codes of
\* its calls, in order (<<>>: it does not call app_exit).
NoExit == <<>>
ExitOutcomes == {NoExit} \cup {<<rc>> : rc \in ExitCodes}

\* The app_exit calls of one external callback or handler.
app_exit_calls(codes) ==
    /\ state' = IF codes = <<>> THEN state ELSE ExitState(codes[Len(codes)])
    /\ exits' = exits \o codes

(***************************************************************************)
(* handle_event_queue: the callback of ctx.event_signal.                   *)
(***************************************************************************)
\* notification_reset(ctx.event_signal).
hq_reset ==
    /\ MainAt("hq_reset")
    /\ event_signal' = FALSE
    /\ cpc' = "hq_check"
    /\ UNCHANGED <<events, events_lock, state, wfds, help_active>>
    /\ UNCHANGED <<fds, idx, entry, ret, producerVars, historyVars>>

\* A drain that goes on until the queue is empty, whatever the loop state.
QueueLoopUntilEmpty == events # <<>>

\* while (ctx.events && ctx.state == loop_run): read without the lock.
QueueLoopCondition == events # <<>> /\ state = "loop_run"

hq_check ==
    /\ MainAt("hq_check")
    /\ IF QueueLoopCondition
       THEN /\ cpc' = "hq_lock"
            /\ idx' = idx
       ELSE \* the callback returns to app_run's scan, which increments i
            /\ cpc' = "scan"
            /\ idx' = idx + 1
    /\ UNCHANGED <<ctxVars, fds, entry, ret, producerVars, historyVars>>

\* pthread_mutex_lock(&ctx.events_lock).
hq_lock ==
    /\ MainAt("hq_lock")
    /\ pthread_mutex_lock(Main)
    /\ cpc' = "hq_pop"
    /\ UNCHANGED <<events, event_signal, state, wfds, help_active>>
    /\ UNCHANGED <<fds, idx, entry, ret, producerVars, historyVars>>

\* A handle_event_queue that unlocks after free(entry): the mutex stays with
\* the consumer over the dispatch.
UnlockAfterDispatch == Main

\* pthread_mutex_unlock(&ctx.events_lock) follows the head removal, before the
\* dispatch: the holder it leaves.
UnlockBeforeDispatch == NoThread

\* if (ctx.events) { entry = ctx.events; ctx.events = list_remove(entry); }
\* and the unlock.
hq_pop ==
    /\ MainAt("hq_pop")
    /\ events_lock = Main
    /\ IF events # <<>>
       THEN /\ entry' = events[1]
            /\ events' = list_remove(events, 1)
            /\ cpc' = "hq_dispatch"
       ELSE /\ entry' = NoEntry
            /\ events' = events
            /\ cpc' = "hq_check"
    /\ lastRoute' = "none"
    /\ events_lock' = UnlockBeforeDispatch
    /\ UNCHANGED <<event_signal, state, wfds, help_active>>
    /\ UNCHANGED <<fds, idx, ret, producerVars, mode, activations, canvasVars,
                   exitCaller, drags>>
    /\ UNCHANGED <<nappend, ncalls, lastDispatched, nimages, released, exits,
                   pollEvent, seqHistory>>

\* An action omitted from the switch: help goes to the mode handler.
IsCommonActionWithoutHelp(action) == action \in CommonActions \ {"action_help"}

\* apply_common_action returns true for the action.
IsCommonAction(action) == action \in CommonActions

\* The event is handled by apply_common_action and not by the mode handler.
HandledAsCommon(event) ==
    event.type = "event_action" /\ IsCommonAction(event.action)

\* apply_common_action, for an event it handles; app_redraw is entered by the
\* consumer itself, and the handler goes on when that call has returned.
apply_common_action(action) ==
    CASE action \in {"action_info", "action_status"} ->
            /\ app_redraw(Main)
            /\ UNCHANGED <<state, help_active, exits>>
      [] action = "action_fullscreen" ->
            UNCHANGED <<state, help_active, exits, ppc, pev>>
      [] action = "action_help" ->
            /\ help_active' = ~help_active
            /\ app_redraw(Main)
            /\ UNCHANGED <<state, exits>>
      [] action = "action_exit" ->
            IF help_active
            THEN /\ help_active' = FALSE
                 /\ app_redraw(Main)
                 /\ UNCHANGED <<state, exits>>
            ELSE /\ app_exit(0)
                 /\ UNCHANGED <<help_active, ppc, pev>>

\* The two mode handlers.
ModeHandlers == {"viewer_handle", "gallery_handle"}

\* The handler app_switch_mode switches to.
OtherHandler(h) ==
    IF h = "viewer_handle" THEN "gallery_handle" ELSE "viewer_handle"

\* Indexes of the image list passed to app_switch_mode.
ModeIndexes == {0, 5}

\* app_switch_mode(index): ctx.ehandler is switched, the new handler is called
\* with the activate event, the help overlay is removed, app_redraw.
ActivateEvent(index) == [type |-> "event_activate", index |-> index]

\* The other order: the event goes to the handler, then the switch is made.
ActivatedHandlerBefore(before, after) == before

\* The handler that is called with the event of app_switch_mode: ctx.ehandler
\* is read after it was switched.
ActivatedHandler(before, after) == after

app_switch_mode(index) ==
    /\ mode' = OtherHandler(mode)
    /\ activations' =
          Append(activations,
                 [arg |-> index, event |-> ActivateEvent(index), from |-> mode,
                  to |-> ActivatedHandler(mode, OtherHandler(mode))])
    /\ help_active' = FALSE
    /\ app_redraw(Main)

\* ctx.ehandler(&entry->event): the mode handler (viewer or gallery) takes the
\* event, and the image of a load event with it; it may call app_exit, and for
\* the mode action it calls app_switch_mode.
ehandler(event, outcomes) ==
    /\ released' = IF event.type = "event_load"
                   THEN [released EXCEPT ![event.image] = @ + 1]
                   ELSE released
    /\ IF event.type = "event_action" /\ event.action = "action_mode"
       THEN /\ \E index \in ModeIndexes : app_switch_mode(index)
            /\ UNCHANGED <<state, exits>>
       ELSE /\ \E codes \in outcomes : app_exit_calls(codes)
            /\ UNCHANGED <<help_active, ppc, pev, mode, activations>>

\* The caller of the first app_exit, once this step has made its calls.
FirstExitBy(caller) ==
    IF exitCaller = "none" /\ exits' # exits THEN caller ELSE exitCaller

\* The dispatch of the popped entry.
hq_dispatch(outcomes) ==
    /\ MainAt("hq_dispatch")
    /\ lastDispatched' = entry.seq
    /\ IF HandledAsCommon(entry)
       THEN /\ apply_common_action(entry.action)
            /\ lastRoute' = "common"
            /\ UNCHANGED <<released, mode, activations>>
       ELSE /\ ehandler(entry, outcomes)
            /\ lastRoute' = mode
    /\ exitCaller' = FirstExitBy("handler")
    /\ drags' = IF drags.kept /\ entry.type = "event_drag"
                THEN [drags EXCEPT
                         !.dispatched = Add2(@, <<entry.dx, entry.dy>>)]
                ELSE drags
    /\ cpc' = "hq_free"
    /\ UNCHANGED <<events, events_lock, event_signal, wfds>>
    /\ UNCHANGED <<fds, idx, entry, ret, pseq, interrupted>>
    /\ UNCHANGED <<nappend, ncalls, nimages, pollEvent, seqHistory, canvasVars>>

\* free(entry), once the handler has returned.
hq_free ==
    /\ MainAt("hq_free")
    /\ Idle(Main)
    /\ entry' = NoEntry
    /\ cpc' = "hq_check"
    /\ UNCHANGED <<ctxVars, fds, idx, ret, producerVars, historyVars>>

handle_event_queue(outcomes) ==
    \/ hq_reset
    \/ hq_check
    \/ hq_lock
    \/ hq_pop
    \/ hq_dispatch(outcomes)
    \/ hq_free

(***************************************************************************)
(* app_run.                                                                *)
(***************************************************************************)
\* Index of ctx.event_signal in ctx.wfds.
IsEventFd(i) == wfds[i] = "handle_event_queue"

\* revents a successful poll can report: at least one descriptor is ready, and
\* the notification descriptor is ready exactly when the notification is raised.
ReadySets ==
    {r \in [DOMAIN fds -> BOOLEAN] :
        /\ \E i \in DOMAIN fds : r[i]
        /\ \A i \in DOMAIN fds : IsEventFd(i) => (r[i] = event_signal)}

\* fds[i].revents & POLLIN as the scan reads it: the entry of the poll array,
\* or, for an index beyond the array calloc returned, whatever is in memory.
Revents(i) == IF i \in DOMAIN fds THEN {fds[i]} ELSE BOOLEAN

\* fds = calloc(...): on NULL app_run returns false; otherwise the poll array
\* is filled from ctx.wfds and ctx.state = loop_run.
run_start ==
    /\ MainAt("start")
    /\ \/ /\ ret' = FALSE
          /\ cpc' = "returned"
          /\ UNCHANGED <<fds, state>>
       \/ /\ fds' = [i \in 1..Len(wfds) |-> FALSE]
          /\ state' = "loop_run"
          /\ cpc' = "loop"
          /\ ret' = ret
    /\ UNCHANGED <<events, events_lock, event_signal, wfds, help_active>>
    /\ UNCHANGED <<idx, entry, producerVars, historyVars>>

\* while (ctx.state == loop_run) { ui_event_prepare(); ...
run_loop ==
    /\ MainAt("loop")
    /\ cpc' = IF state = "loop_run" THEN "poll" ELSE "exit"
    /\ UNCHANGED <<ctxVars, fds, idx, entry, ret, producerVars, historyVars>>

\* What poll leaves in revents when it fails with EINTR: the entries as they
\* were (the kernel wrote nothing back) or all cleared.
AfterInterrupt(revents) == {revents, [i \in DOMAIN revents |-> FALSE]}

\* poll(fds, ctx.wfds_num, -1) succeeds.
run_poll_ok ==
    /\ MainAt("poll")
    /\ fds' \in ReadySets
    /\ pollEvent' = "ok"
    /\ cpc' = "scan"
    /\ idx' = 1
    /\ UNCHANGED <<ctxVars, entry, ret, producerVars>>
    /\ UNCHANGED <<nappend, ncalls, lastDispatched, nimages, released, exits,
                   seqHistory, sideVars>>

\* An EINTR handled like any other failure of poll.
run_poll_eintr_fatal ==
    /\ MainAt("poll")
    /\ pollEvent' = "eintr"
    /\ state' = "loop_error"
    /\ cpc' = "exit"
    /\ UNCHANGED <<events, events_lock, event_signal, wfds, help_active>>
    /\ UNCHANGED <<fds, idx, entry, ret, producerVars>>
    /\ UNCHANGED <<nappend, ncalls, lastDispatched, nimages, released, exits,
                   seqHistory, sideVars>>

\* poll fails with EINTR: no state change, and the scan runs over revents.
run_poll_eintr ==
    /\ MainAt("poll")
    /\ fds' \in AfterInterrupt(fds)
    /\ pollEvent' = "eintr"
    /\ cpc' = "scan"
    /\ idx' = 1
    /\ UNCHANGED <<ctxVars, entry, ret, producerVars>>
    /\ UNCHANGED <<nappend, ncalls, lastDispatched, nimages, released, exits,
                   seqHistory, sideVars>>

\* poll fails otherwise: ctx.state = loop_error; break.
run_poll_error ==
    /\ MainAt("poll")
    /\ pollEvent' = "error"
    /\ state' = "loop_error"
    /\ cpc' = "exit"
    /\ UNCHANGED <<events, events_lock, event_signal, wfds, help_active>>
    /\ UNCHANGED <<fds, idx, entry, ret, producerVars>>
    /\ UNCHANGED <<nappend, ncalls, lastDispatched, nimages, released, exits,
                   seqHistory, sideVars>>

run_poll ==
    \/ run_poll_ok
    \/ run_poll_eintr
    \/ run_poll_error

\* A scan that always runs to the end of the array.
ScanToEnd == idx <= Len(wfds)

\* for (i = 0; ctx.state == loop_run && i < ctx.wfds_num; ++i)
ScanCondition == state = "loop_run" /\ idx <= Len(wfds)

\* The scan passes an entry whose revents has no POLLIN.
run_scan_skip ==
    /\ MainAt("scan")
    /\ ScanCondition
    /\ FALSE \in Revents(idx)
    /\ idx' = idx + 1
    /\ UNCHANGED <<ctxVars, cpc, fds, entry, ret, producerVars, historyVars>>

\* The scan calls handle_event_queue.
run_scan_events ==
    /\ MainAt("scan")
    /\ ScanCondition
    /\ TRUE \in Revents(idx)
    /\ IsEventFd(idx)
    /\ cpc' = "hq_reset"
    /\ UNCHANGED <<ctxVars, fds, idx, entry, ret, producerVars, historyVars>>

\* The scan calls an external callback (window system, timers), which may
\* call app_exit.
run_scan_external(outcomes) ==
    /\ MainAt("scan")
    /\ ScanCondition
    /\ TRUE \in Revents(idx)
    /\ ~IsEventFd(idx)
    /\ \E codes \in outcomes : app_exit_calls(codes)
    /\ exitCaller' = FirstExitBy("callback")
    /\ idx' = idx + 1
    /\ UNCHANGED <<events, events_lock, event_signal, wfds, help_active>>
    /\ UNCHANGED <<cpc, fds, entry, ret, producerVars>>
    /\ UNCHANGED <<nappend, ncalls, lastDispatched, nimages, released,
                   pollEvent, seqHistory, modeVars, canvasVars, drags>>

\* app_watch(fd, cb, data): realloc of ctx.wfds; the entry is added at the end,
\* or, when realloc fails, the registration is dropped.
app_watch(cb) ==
    \/ wfds' = Append(wfds, cb)
    \/ wfds' = wfds

\* The scan calls an external callback that registers a descriptor.
run_scan_external_watch ==
    /\ MainAt("scan")
    /\ ScanCondition
    /\ TRUE \in Revents(idx)
    /\ ~IsEventFd(idx)
    /\ Len(wfds) < Len(fds) + MaxWatches
    /\ app_watch("ui")
    /\ idx' = idx + 1
    /\ UNCHANGED <<events, events_lock, event_signal, state, help_active>>
    /\ UNCHANGED <<cpc, fds, entry, ret, producerVars, historyVars>>

\* The scan ends: ui_event_done(), and back to the loop condition.
run_scan_done ==
    /\ MainAt("scan")
    /\ ~ScanCondition
    /\ cpc' = "loop"
    /\ UNCHANGED <<ctxVars, fds, idx, entry, ret, producerVars, historyVars>>

\* An app_run that always reports success.
RunResultAlways(st) == TRUE

\* app_run's result.
RunResult(st) == st # "loop_error"

\* free(fds); return ctx.state != loop_error;
run_return ==
    /\ MainAt("exit")
    /\ ret' = RunResult(state)
    /\ cpc' = "returned"
    /\ UNCHANGED <<ctxVars, fds, idx, entry, producerVars, historyVars>>

app_run(outcomes) ==
    \/ run_start
    \/ run_loop
    \/ run_poll
    \/ run_scan_skip
    \/ run_scan_events
    \/ run_scan_external(outcomes)
    \/ run_scan_done
    \/ run_return

(***************************************************************************)
(* app_destroy, after app_run has returned and the producers have stopped  *)
(* (loader_destroy, gallery_destroy, ui_destroy come first).               *)
(***************************************************************************)
\* Images of the load events of a queue.
QueuedImages(head) ==
    {head[i].image : i \in {j \in 1..Len(head) : head[j].type = "event_load"}}

\* list_for_each(ctx.events, ...): image_free for a load event, free(it).
app_destroy ==
    /\ MainAt("returned")
    /\ \A t \in Contexts : Idle(t)
    /\ released' = [im \in DOMAIN released |->
                      IF im \in QueuedImages(events)
                      THEN released[im] + 1
                      ELSE released[im]]
    /\ events' = <<>>
    /\ cpc' = "destroyed"
    /\ UNCHANGED <<events_lock, event_signal, state, wfds, help_active>>
    /\ UNCHANGED <<fds, idx, entry, ret, producerVars>>
    /\ UNCHANGED <<nappend, ncalls, lastDispatched, nimages, exits, pollEvent,
                   seqHistory, sideVars>>

(***************************************************************************)
(* canvas.c: the arithmetic of the viewport.  ctx.scale and the            *)
(* intermediate results are of type float; they are computed here as the   *)
(* machine computes them, rounded to nearest, ties to even.                *)
(***************************************************************************)
\* Scale thresholds.
MIN_SCALE == 10
MAX_SCALE == 100

\* The width of the significand of a float.
FLT_MANT_DIG == 24

\* A float of value s * m * 2^e: the sign s is 1 or -1, the significand m is
\* 0 or has FLT_MANT_DIG bits; zero has the sign 1.
Float(s, m, e) == [s |-> s, m |-> m, e |-> e]
FZero == Float(1, 0, 0)
MantMin == 2^(FLT_MANT_DIG - 1)
MantMax == 2^FLT_MANT_DIG

Abs(n) == IF n < 0 THEN -n ELSE n

\* The number of bits of n.
RECURSIVE BitLen(_)
BitLen(n) == IF n = 0 THEN 0 ELSE 1 + BitLen(n \div 2)

\* The float nearest to a magnitude between n * 2^e and (n + 1) * 2^e: equal
\* to n * 2^e without sticky, above it with sticky.
FRound(s, n, e, sticky) ==
    IF n = 0
    THEN FZero
    ELSE LET k == BitLen(n) - FLT_MANT_DIG
         IN  IF k <= 0
             THEN Float(s, n * 2^(-k), e + k)
             ELSE LET q == n \div 2^k
                      r == n % 2^k
                      half == 2^(k - 1)
                      up == \/ r > half
                            \/ r = half /\ (sticky \/ q % 2 = 1)
                      rounded == IF up THEN q + 1 ELSE q
                  IN  IF rounded = MantMax
                      THEN Float(s, MantMin, e + k + 1)
                      ELSE Float(s, rounded, e + k)

\* The conversion of an integer to float.
IntToFloat(i) == FRound(IF i < 0 THEN -1 ELSE 1, Abs(i), 0, FALSE)

\* The conversion of a float to an integer type: the fraction is discarded.
FTrunc(f) ==
    IF f.m = 0 THEN 0
    ELSE IF f.e >= 0 THEN f.s * f.m * 2^(f.e)
    ELSE IF -f.e >= FLT_MANT_DIG THEN 0
    ELSE f.s * (f.m \div 2^(-f.e))

FNeg(a) == IF a.m = 0 THEN a ELSE Float(-a.s, a.m, a.e)

\* a * b: the 48-bit product of the significands is formed from halves.
FMul(a, b) ==
    IF a.m = 0 \/ b.m = 0
    THEN FZero
    ELSE LET limb == 2^12
             a1 == a.m \div limb
             a0 == a.m % limb
             b1 == b.m \div limb
             b0 == b.m % limb
             mid == a1 * b0 + a0 * b1
             low == a0 * b0 + (mid % limb) * limb
             L == low % MantMax
             H == a1 * b1 + (mid \div limb) + (low \div MantMax)
         IN  FRound(a.s * b.s, H * 2^6 + (L \div 2^18), a.e + b.e + 18,
                    L % 2^18 # 0)

\* k more bits of the quotient q with remainder r of a division by d.
RECURSIVE DivBits(_, _, _, _)
DivBits(q, r, d, k) ==
    IF k = 0 THEN <<q, r>>
    ELSE IF 2 * r >= d THEN DivBits(2 * q + 1, 2 * r - d, d, k - 1)
    ELSE DivBits(2 * q, 2 * r, d, k - 1)

\* a / b for b other than zero.
FDiv(a, b) ==
    IF a.m = 0
    THEN FZero
    ELSE LET qr == DivBits(a.m \div b.m, a.m % b.m, b.m, 26)
         IN  FRound(a.s * b.s, qr[1], a.e - b.e - 26, qr[2] # 0)

\* a + b.
FAdd(a, b) ==
    IF a.m = 0 THEN b
    ELSE IF b.m = 0 THEN a
    ELSE LET aBigger == a.e > b.e \/ (a.e = b.e /\ a.m >= b.m)
             big == IF aBigger THEN a ELSE b
             small == IF aBigger THEN b ELSE a
             d == big.e - small.e
             A == big.m * 2^6
             B == IF d > 30 THEN 0 ELSE (small.m * 2^6) \div 2^d
             sticky == IF d > 30 THEN TRUE ELSE (small.m * 2^6) % 2^d # 0
             n == IF big.s = small.s THEN A + B
                  ELSE IF sticky THEN A - B - 1
                  ELSE A - B
         IN  FRound(big.s, n, big.e - 6, sticky)

FSub(a, b) == FAdd(a, FNeg(b))

\* a < b.
FLess(a, b) ==
    LET MagLess(x, y) ==
            \/ x.m = 0 /\ y.m # 0
            \/ x.m # 0 /\ y.m # 0 /\ (x.e < y.e \/ (x.e = y.e /\ x.m < y.m))
    IN  IF a.s = 1 /\ b.s = 1 THEN MagLess(a, b)
        ELSE IF a.s = -1 /\ b.s = -1 THEN MagLess(b, a)
        ELSE a.s = -1

\* The macros max and min, applied to floats.
fmax(x, y) == IF FLess(y, x) THEN x ELSE y
fmin(x, y) == IF FLess(x, y) THEN x ELSE y

\* a < b for two values of type size_t, each given by the ssize_t of the same
\* bits: a negative one stands for a value above SSIZE_MAX.
size_t_less(a, b) == IF (a < 0) = (b < 0) THEN a < b ELSE b < 0

(***************************************************************************)
(* canvas.c: the viewport.                                                 *)
(***************************************************************************)
\* enum canvas_scale.
ScaleModes ==
    {"scale_fit_optimal", "scale_fit_window", "scale_fit_width",
     "scale_fit_height", "scale_fill_window", "scale_real_size"}

\* static struct canvas ctx before the first call: all zero.
CanvasZero ==
    [initial_scale |-> "scale_fit_optimal",
     scale |-> FZero,
     image |-> [x |-> 0, y |-> 0, width |-> 0, height |-> 0],
     window |-> [width |-> 0, height |-> 0]]

\* ctx.scale * size, converted to size_t.
Scaled(sc, size) == FTrunc(FMul(sc, IntToFloat(size)))

\* fix_viewport without its last two tests: an image that fits is not centred.
fix_axis_snap_only(pos, size, wnd) ==
    IF pos > 0 /\ size_t_less(wnd, pos + size) THEN 0
    ELSE IF pos < 0 /\ size_t_less(pos + size, wnd) THEN wnd - size
    ELSE pos

\* fix_viewport moving an image that fits half the way to the centre.
fix_axis_halfway(pos, size, wnd) ==
    IF size <= wnd
    THEN (pos + (wnd \div 2) - (size \div 2)) \div 2
    ELSE fix_axis_snap_only(pos, size, wnd)

\* fix_viewport on one axis, for the position pos, the scaled size and the
\* window size wnd: the two snaps test the position of before the call.
fix_axis(pos, size, wnd) ==
    LET snapped ==
            IF pos > 0 /\ size_t_less(wnd, pos + size) THEN 0
            ELSE IF pos < 0 /\ size_t_less(pos + size, wnd) THEN wnd - size
            ELSE pos
    IN  IF size <= wnd THEN (wnd \div 2) - (size \div 2) ELSE snapped

\* fix_viewport.
fix_viewport(c) ==
    [c EXCEPT
        !.image.x = fix_axis(c.image.x, Scaled(c.scale, c.image.width),
                             c.window.width),
        !.image.y = fix_axis(c.image.y, Scaled(c.scale, c.image.height),
                             c.window.height)]

\* 1.0 / ((float)size / wnd): the quotient of the two floats is formed in
\* double and rounded to float, which gives the float quotient; a window of
\* size 0 makes the divisor infinite and the result zero.
FitScale(size, wnd) ==
    IF wnd = 0 THEN FZero
    ELSE FDiv(IntToFloat(1), FDiv(IntToFloat(size), IntToFloat(wnd)))

\* set_scale without the limit of scale_fit_optimal.
FixedScaleUncapped(c, sc) ==
    LET scale_w == FitScale(c.image.width, c.window.width)
        scale_h == FitScale(c.image.height, c.window.height)
    IN  CASE sc \in {"scale_fit_optimal", "scale_fit_window"} ->
                fmin(scale_w, scale_h)
          [] sc = "scale_fit_width" -> scale_w
          [] sc = "scale_fit_height" -> scale_h
          [] sc = "scale_fill_window" -> fmax(scale_w, scale_h)
          [] sc = "scale_real_size" -> IntToFloat(1)

\* The scale set_scale chooses.
FixedScale(c, sc) ==
    LET scale_w == FitScale(c.image.width, c.window.width)
        scale_h == FitScale(c.image.height, c.window.height)
    IN  CASE sc = "scale_fit_optimal" ->
                IF FLess(IntToFloat(1), fmin(scale_w, scale_h))
                THEN IntToFloat(1)
                ELSE fmin(scale_w, scale_h)
          [] sc = "scale_fit_window" -> fmin(scale_w, scale_h)
          [] sc = "scale_fit_width" -> scale_w
          [] sc = "scale_fit_height" -> scale_h
          [] sc = "scale_fill_window" -> fmax(scale_w, scale_h)
          [] sc = "scale_real_size" -> IntToFloat(1)

\* wnd / 2 - (ctx.scale * size) / 2, assigned to a position.
Centered(sc, size, wnd) ==
    FTrunc(FSub(IntToFloat(wnd \div 2),
                FDiv(FMul(sc, IntToFloat(size)), IntToFloat(2))))

\* set_scale.
set_scale(c, sc) ==
    LET s == FixedScale(c, sc)
    IN  fix_viewport(
            [c EXCEPT
                !.scale = s,
                !.image.x = Centered(s, c.image.width, c.window.width),
                !.image.y = Centered(s, c.image.height, c.window.height)])

\* The scale zoom sets.
ZoomScale(c, percent) ==
    LET step == FMul(FDiv(c.scale, IntToFloat(100)), IntToFloat(percent))
        scale_w == FDiv(IntToFloat(MIN_SCALE), IntToFloat(c.image.width))
        scale_h == FDiv(IntToFloat(MIN_SCALE), IntToFloat(c.image.height))
        scale_min == fmax(scale_w, scale_h)
        sum == FAdd(c.scale, step)
    IN  IF percent > 0
        THEN IF FLess(IntToFloat(MAX_SCALE), sum)
             THEN IntToFloat(MAX_SCALE)
             ELSE sum
        ELSE IF FLess(sum, scale_min) THEN scale_min ELSE sum

\* Positions that stand for the result of converting a float that is not
\* finite to ssize_t, which is undefined: the least value, zero, the greatest.
UndefinedPositions == {-(2^30), 0, 2^30}

\* pos += ((float)cntr / old) * delta in zoom, cntr being wnd / 2 - pos and
\* delta being old - new; with old = 0 the quotient is not finite.
ZoomPositions(pos, old, new, wnd) ==
    IF old = 0
    THEN UndefinedPositions
    ELSE {FTrunc(FAdd(IntToFloat(pos),
                      FMul(FDiv(IntToFloat((wnd \div 2) - pos),
                                IntToFloat(old)),
                           IntToFloat(old - new))))}

\* zoom before its call of fix_viewport: the states it can be in.
ZoomMoved(c, percent) ==
    LET s == ZoomScale(c, percent)
        old_w == Scaled(c.scale, c.image.width)
        old_h == Scaled(c.scale, c.image.height)
        new_w == Scaled(s, c.image.width)
        new_h == Scaled(s, c.image.height)
    IN  {[c EXCEPT !.scale = s, !.image.x = x, !.image.y = y] :
            x \in ZoomPositions(c.image.x, old_w, new_w, c.window.width),
            y \in ZoomPositions(c.image.y, old_h, new_h, c.window.height)}

\* zoom: the states it can leave.
zoom(c, percent) == {fix_viewport(moved) : moved \in ZoomMoved(c, percent)}

\* An image was set by canvas_reset_image.
HasImage == canvas.image.width > 0 /\ canvas.image.height > 0

\* The window has a size.
HasWindow == canvas.window.width > 0 /\ canvas.window.height > 0

\* The viewer shows an image in its window: the operations that the input of
\* the user starts are made in this state.
Viewing == HasImage /\ HasWindow

\* The arguments of canvas_move and canvas_drag and the number passed to
\* zoom; the operations that return nothing leave ret FALSE.
CanvasCall(horizontal, percent, dx, dy, result) ==
    [horizontal |-> horizontal, percent |-> percent, dx |-> dx, dy |-> dy,
     ret |-> result]

NoCanvasCall == CanvasCall(FALSE, 0, 0, 0, FALSE)

\* One more operation on the canvas.
CanvasOp(name, max) ==
    /\ canvas_ops < max
    /\ canvas_ops' = canvas_ops + 1
    /\ canvas_op' = name
    /\ window_was_reset' = (window_was_reset \/ name = "canvas_reset_window")
    /\ UNCHANGED appVars

\* The comparison of canvas_move and canvas_drag without its test of y.
MovedHorizontally(old, new) == new.image.x # old.image.x

\* return (ctx.image.x != old_x || ctx.image.y != old_y).
Moved(old, new) == new.image.x # old.image.x \/ new.image.y # old.image.y

\* load_config: the key "scale" sets the initial scale, before anything else.
canvas_load_config(sc) ==
    /\ canvas_op = "none"
    /\ canvas.initial_scale # sc
    /\ canvas' = [canvas EXCEPT !.initial_scale = sc]
    /\ UNCHANGED <<canvas_ops, canvas_op, canvas_call, window_was_reset,
                   appVars>>

\* const bool first = (ctx.window.width == 0).
First(c) == c.window.width = 0

canvas_reset_window(width, height, max) ==
    /\ CanvasOp("canvas_reset_window", max)
    /\ canvas' = fix_viewport([canvas EXCEPT !.window.width = width,
                                             !.window.height = height])
    /\ canvas_call' = CanvasCall(FALSE, 0, 0, 0, First(canvas))

canvas_reset_image(width, height, max) ==
    /\ CanvasOp("canvas_reset_image", max)
    /\ canvas' = set_scale([canvas EXCEPT
                               !.image = [x |-> 0, y |-> 0, width |-> width,
                                          height |-> height],
                               !.scale = FZero],
                           canvas.initial_scale)
    /\ canvas_call' = NoCanvasCall

canvas_swap_image_size(max) ==
    /\ Viewing
    /\ CanvasOp("canvas_swap_image_size", max)
    /\ LET diff == canvas.image.width - canvas.image.height
           shift == FTrunc(FDiv(FMul(canvas.scale, IntToFloat(diff)),
                                IntToFloat(2)))
       IN  canvas' = fix_viewport(
               [canvas EXCEPT !.image.x = @ + shift,
                              !.image.y = @ - shift,
                              !.image.width = canvas.image.height,
                              !.image.height = canvas.image.width])
    /\ canvas_call' = NoCanvasCall

canvas_move(horizontal, percent, max) ==
    /\ Viewing
    /\ CanvasOp("canvas_move", max)
    /\ canvas' = fix_viewport(
           IF horizontal
           THEN [canvas EXCEPT
                    !.image.x = @ + (canvas.window.width \div 100) * percent]
           ELSE [canvas EXCEPT
                    !.image.y = @ + (canvas.window.height \div 100) * percent])
    /\ canvas_call' = CanvasCall(horizontal, percent, 0, 0,
                                 Moved(canvas, canvas'))

canvas_drag(dx, dy, max) ==
    /\ Viewing
    /\ CanvasOp("canvas_drag", max)
    /\ canvas' = fix_viewport([canvas EXCEPT !.image.x = @ + dx,
                                             !.image.y = @ + dy])
    /\ canvas_call' = CanvasCall(FALSE, 0, dx, dy, Moved(canvas, canvas'))

\* canvas_zoom with the name of a scale.
canvas_zoom_scale(sc, max) ==
    /\ Viewing
    /\ CanvasOp("set_scale", max)
    /\ canvas' = set_scale(canvas, sc)
    /\ canvas_call' = NoCanvasCall

\* canvas_zoom with a number.
canvas_zoom_percent(percent, max) ==
    /\ Viewing
    /\ percent # 0 /\ percent > -1000 /\ percent < 1000
    /\ CanvasOp("zoom", max)
    /\ canvas' \in zoom(canvas, percent)
    /\ canvas_call' = CanvasCall(FALSE, percent, 0, 0, FALSE)

\* The inputs of the operations on the canvas.
MaxCanvasOps == 4
WindowSizes == {<<800, 600>>, <<1000, 1000>>, <<100, 80>>}
ImageSizes == {<<1600, 1200>>, <<2000, 500>>, <<1023, 767>>, <<8, 6>>}
ZoomPercents == {10, -50}
MovePercents == {-10, 10}
CanvasDrags == {<<-3000, 0>>, <<25, -15>>}
\* The sizes passed to canvas_reset_window: those of a visible window, and
\* the size 0 of a window that has none yet.
ResetSizes == WindowSizes \cup {<<0, 0>>}

(***************************************************************************)
(* The concurrent specification.                                           *)
(***************************************************************************)
\* The state app_init leaves: the window system's descriptor was registered
\* by ui_init, then the notification's; load_config chose the mode handler.
AppStart(handler) ==
    /\ events = <<>>
    /\ events_lock = NoThread
    /\ event_signal = FALSE
    /\ state = "loop_run"
    /\ wfds = <<"ui", "handle_event_queue">>
    /\ help_active = FALSE
    /\ cpc = "start"
    /\ fds = <<>>
    /\ idx = 1
    /\ entry = NoEntry
    /\ ret = FALSE
    /\ ppc = [t \in Contexts |-> "idle"]
    /\ pev = [t \in Contexts |-> NoEntry]
    /\ pseq = [t \in Contexts |-> <<>>]
    /\ interrupted = NoThread
    /\ nappend = 0
    /\ ncalls = 0
    /\ lastDispatched = 0
    /\ nimages = 0
    /\ released = [im \in Images |-> 0]
    /\ exits = <<>>
    /\ pollEvent = "none"
    /\ nsignals = 0
    /\ pre = NoCall
    /\ mode = handler
    /\ lastRoute = "none"
    /\ activations = <<>>
    /\ exitCaller = "none"

\* The start of the specifications that keep no record of the drags.
AppInit(handler) == AppStart(handler) /\ drags = NoDrags

\* The canvas before its first operation, holding c.
CanvasInit(c) ==
    /\ canvas = c
    /\ canvas_ops = 0
    /\ canvas_op = "none"
    /\ canvas_call = NoCanvasCall
    /\ window_was_reset = FALSE

\* The start in the default mode, the viewer.
Init == AppInit("viewer_handle") /\ CanvasInit(CanvasZero)

\* Calls the producer threads make.
ProducerOps ==
    {RedrawOp, ResizeOp, LoadOp, <<"app_on_drag", 1, 1>>}
        \cup KeyOps({"k_exit", "k_info"})

Next ==
    \/ \E t \in Producers : ProducerCall(t, ProducerOps, MaxCalls)
    \/ \E t \in Threads : AppendStep(t)
    \/ app_run(ExitOutcomes)
    \/ handle_event_queue(ExitOutcomes)
    \/ app_destroy

Spec == Init /\ [][Next]_vars

(***************************************************************************)
(* The sequential specification: one producer, and a call runs from entry  *)
(* to return with no step of the consumer in between.                      *)
(***************************************************************************)
SeqProducer == "p1"

SeqOps ==
    {RedrawOp, ResizeOp, LoadOp} \cup DragOps

\* The producer calls op while the consumer is outside the critical sections
\* and outside its own app_redraw.
SeqCall(op) ==
    /\ Idle(Main)
    /\ events_lock = NoThread
    /\ EntryPoint(SeqProducer, op, MaxSeqCalls)
    /\ pre' = [op |-> op, events |-> events, event_signal |-> event_signal,
               nappend |-> nappend]

\* The consumer runs while the producer is outside every entry point.
SeqConsumer ==
    /\ Idle(SeqProducer)
    /\ \/ app_run(ExitOutcomes)
       \/ handle_event_queue(ExitOutcomes)
       \/ app_destroy

SeqNext ==
    \/ \E op \in SeqOps : SeqCall(op)
    \/ AppendStep(SeqProducer)
    \/ SeqConsumer

SeqSpec == Init /\ [][SeqNext]_vars

(***************************************************************************)
(* Signals: on_signal runs on top of the thread the signal is delivered    *)
(* to, which does not run until the handler has returned.                  *)
(***************************************************************************)
\* on_signal(signum), delivered to thread t: the first append_event of the
\* signal's action sequence.
on_signal(t, signum) ==
    /\ interrupted = NoThread
    /\ nsignals < MaxSignals
    /\ cpc # "destroyed"
    /\ nsignals' = nsignals + 1
    /\ LET sigact == SigAction(signum)
       IN  IF sigact = <<>>
           THEN UNCHANGED <<ppc, pev, pseq, interrupted>>
           ELSE /\ ppc' = [ppc EXCEPT ![Sig] = "ap_malloc"]
                /\ pev' = [pev EXCEPT ![Sig] = ActionEvent(Head(sigact))]
                /\ pseq' = [pseq EXCEPT ![Sig] = Tail(sigact)]
                /\ interrupted' = t
    /\ UNCHANGED <<ctxVars, consumerVars, pre, sideVars>>
    /\ UNCHANGED <<nappend, ncalls, lastDispatched, nimages, released, exits,
                   pollEvent>>

\* on_signal returns and the interrupted thread resumes.
sig_return ==
    /\ interrupted # NoThread
    /\ Idle(Sig)
    /\ interrupted' = NoThread
    /\ UNCHANGED <<ctxVars, consumerVars, ppc, pev, pseq, historyVars>>

SigOps == {RedrawOp, ResizeOp, <<"app_on_drag", 1, 1>>}

\* Steps a fair scheduler and a working poll eventually take.
ConsumerProgress ==
    \/ run_start
    \/ run_loop
    \/ run_poll_ok
    \/ run_scan_skip
    \/ run_scan_events
    \/ run_scan_external(ExitOutcomes)
    \/ run_scan_done
    \/ run_return
    \/ handle_event_queue(ExitOutcomes)

SigNext ==
    \/ \E t \in {SeqProducer} : ProducerCall(t, SigOps, MaxFairCalls)
    \/ \E t \in Contexts : AppendStep(t)
    \/ \E t \in Threads : \E signum \in Signals : on_signal(t, signum)
    \/ sig_return
    \/ app_run(ExitOutcomes)
    \/ handle_event_queue(ExitOutcomes)
    \/ app_destroy

\* Fair scheduling: every context that can step eventually steps, and a poll
\* that is called again and again eventually succeeds.
Fairness ==
    /\ \A t \in Contexts : WF_vars(AppendStep(t))
    /\ WF_vars(sig_return)
    /\ WF_vars(ConsumerProgress)
    /\ SF_vars(run_poll_ok)

FairSigSpec == Init /\ [][SigNext]_vars /\ Fairness

\* The same scheduling with no signal delivered.
FairNext ==
    \/ \E t \in Producers : ProducerCall(t, ProducerOps, MaxFairCalls)
    \/ \E t \in Threads : AppendStep(t)
    \/ app_run(ExitOutcomes)
    \/ handle_event_queue(ExitOutcomes)
    \/ app_destroy

FairSpec == Init /\ [][FairNext]_vars /\ Fairness

(***************************************************************************)
(* The specification of the viewport: the operations of canvas.c, made by  *)
(* the one thread that owns the canvas.                                    *)
(***************************************************************************)
CanvasNext ==
    \/ \E sc \in ScaleModes : canvas_load_config(sc)
    \/ \E size \in ResetSizes :
          canvas_reset_window(size[1], size[2], MaxCanvasOps)
    \/ \E size \in ImageSizes :
          canvas_reset_image(size[1], size[2], MaxCanvasOps)
    \/ \E sc \in ScaleModes : canvas_zoom_scale(sc, MaxCanvasOps)
    \/ \E percent \in ZoomPercents : canvas_zoom_percent(percent, MaxCanvasOps)
    \/ \E horizontal \in BOOLEAN, percent \in MovePercents :
          canvas_move(horizontal, percent, MaxCanvasOps)
    \/ \E delta \in CanvasDrags : canvas_drag(delta[1], delta[2], MaxCanvasOps)
    \/ canvas_swap_image_size(MaxCanvasOps)

CanvasSpec == Init /\ [][CanvasNext]_vars

(***************************************************************************)
(* The specification of fix_viewport as a function: it is applied to       *)
(* arbitrary values of the scale, the sizes and the position, and to the   *)
(* states the operations leave from them.                                  *)
(***************************************************************************)
MaxFixes == 2
FixScales ==
    {FDiv(IntToFloat(n[1]), IntToFloat(n[2])) :
        n \in {<<0, 1>>, <<11, 20>>, <<1, 1>>, <<100, 1>>}}
FixPositions == {-3000, -400, 37}
FixImages == {<<1600, 1200>>, <<8, 6>>}
FixStates ==
    [initial_scale : {"scale_fit_optimal"},
     scale : FixScales,
     image : {[x |-> x, y |-> y, width |-> size[1], height |-> size[2]] :
                 x \in FixPositions, y \in FixPositions, size \in FixImages},
     window : {[width |-> size[1], height |-> size[2]] : size \in WindowSizes}]

FixInit == AppInit("viewer_handle") /\ \E c \in FixStates : CanvasInit(c)

\* fix_viewport is called.
FixViewport ==
    /\ CanvasOp("fix_viewport", MaxFixes)
    /\ canvas' = fix_viewport(canvas)
    /\ canvas_call' = NoCanvasCall

FixNext ==
    \/ FixViewport
    \/ \E sc \in ScaleModes : canvas_load_config(sc)
    \/ \E size \in WindowSizes : canvas_reset_window(size[1], size[2], MaxFixes)
    \/ \E size \in ImageSizes : canvas_reset_image(size[1], size[2], MaxFixes)
    \/ \E sc \in ScaleModes : canvas_zoom_scale(sc, MaxFixes)
    \/ \E percent \in ZoomPercents : canvas_zoom_percent(percent, MaxFixes)
    \/ \E horizontal \in BOOLEAN, percent \in MovePercents :
          canvas_move(horizontal, percent, MaxFixes)
    \/ \E delta \in CanvasDrags : canvas_drag(delta[1], delta[2], MaxFixes)
    \/ canvas_swap_image_size(MaxFixes)

FixSpec == FixInit /\ [][FixNext]_vars

(***************************************************************************)
(* The specification with mode switches.                                   *)
(***************************************************************************)
ModeOps ==
    {ResizeOp, RedrawOp, <<"app_on_drag", 1, 1>>}
        \cup KeyOps({"k_mode", "k_help", "k_exit", "k_reload_exit"})

ModeNext ==
    \/ \E t \in {SeqProducer} : ProducerCall(t, ModeOps, MaxCalls)
    \/ \E t \in {SeqProducer, Main} : AppendStep(t)
    \/ app_run(ExitOutcomes)
    \/ handle_event_queue(ExitOutcomes)
    \/ app_destroy

\* The start in either mode of the configuration.
ModeInit ==
    /\ \E handler \in ModeHandlers : AppInit(handler)
    /\ CanvasInit(CanvasZero)

ModeSpec == ModeInit /\ [][ModeNext]_vars

(***************************************************************************)
(* The specification with callbacks that register descriptors.             *)
(***************************************************************************)
WatchOps == {RedrawOp, ResizeOp, <<"app_on_drag", 1, 1>>}

WatchNext ==
    \/ \E t \in {SeqProducer} : ProducerCall(t, WatchOps, MaxFairCalls)
    \/ \E t \in {SeqProducer} : AppendStep(t)
    \/ app_run(ExitOutcomes)
    \/ run_scan_external_watch
    \/ handle_event_queue(ExitOutcomes)
    \/ app_destroy

WatchSpec == Init /\ [][WatchNext]_vars

(***************************************************************************)
(* The specification with callbacks and handlers that call app_exit more   *)
(* than once.                                                              *)
(***************************************************************************)
\* What one callback or handler does with app_exit: no call, one call, or
\* two calls with different codes.
ExitSequences == ExitOutcomes \cup {<<1, 0>>, <<0, 1>>}

ExitOps ==
    {RedrawOp, ResizeOp, <<"app_on_drag", 1, 1>>} \cup KeyOps({"k_exit"})

ExitNext ==
    \/ \E t \in {SeqProducer} : ProducerCall(t, ExitOps, MaxFairCalls)
    \/ \E t \in {SeqProducer} : AppendStep(t)
    \/ app_run(ExitSequences)
    \/ handle_event_queue(ExitSequences)
    \/ app_destroy

ExitSpec == Init /\ [][ExitNext]_vars

(***************************************************************************)
(* The specification of the drags: the producer threads call app_on_drag   *)
(* app_redraw and app_on_resize while the consumer runs, and the record    *)
(* of the drags is kept.                                                   *)
(***************************************************************************)
DragInit ==
    /\ AppStart("viewer_handle")
    /\ CanvasInit(CanvasZero)
    /\ drags = KeptDrags

DragCallOps == DragOps \cup {RedrawOp, ResizeOp}

DragNext ==
    \/ \E t \in Producers : ProducerCall(t, DragCallOps, MaxCalls)
    \/ \E t \in Threads : AppendStep(t)
    \/ app_run(ExitOutcomes)
    \/ handle_event_queue(ExitOutcomes)
    \/ app_destroy

DragSpec == DragInit /\ [][DragNext]_vars

(***************************************************************************)
(* Properties.                                                             *)
(***************************************************************************)
\* Append stamps of the queued nodes, head first.
QueueSeqs == [i \in 1..Len(events) |-> events[i].seq]

\* The node with append stamp n is in the queue.
InQueue(n) == \E i \in 1..Len(events) : events[i].seq = n

\* Nothing was taken out of the queue by the consumer so far.
NothingDequeued == lastDispatched = 0 /\ entry = NoEntry /\ cpc # "destroyed"

\* app_run has returned.
Returned == cpc \in {"returned", "destroyed"}

\* C1: events are dispatched in the order their nodes were appended.  The
\* queue is ordered by append stamp whatever was coalesced, the popped node is
\* older than everything queued, and every node dispatched so far is older
\* than the popped node and than everything queued.
C1_FifoDispatch ==
    /\ \A i, j \in 1..Len(events) : i < j => events[i].seq < events[j].seq
    /\ \A i \in 1..Len(events) :
          /\ events[i].seq > lastDispatched
          /\ entry # NoEntry => events[i].seq > entry.seq
    /\ entry # NoEntry => entry.seq >= lastDispatched

\* C1, witness: the second or a later node was dispatched while younger nodes
\* wait in the queue behind it.
C1_Witness ==
    /\ cpc = "hq_free"
    /\ lastDispatched >= 2
    /\ Len(events) >= 1

\* C2: the queue never holds more than one redraw event, whatever the
\* interleaving of the contexts calling app_redraw.
C2_AtMostOneRedraw == CountOfType(events, "event_redraw") <= 1

\* C3: the queue never holds more than one drag event, whatever the
\* interleaving of the contexts calling app_on_drag.
C3_AtMostOneDrag == CountOfType(events, "event_drag") <= 1

\* The events of a queue that are not redraws, in order.
NonRedraw(head) == SelectSeq(head, LAMBDA e : e.type # "event_redraw")

\* The single producer returns from the call it made last.
SeqReturns == ~Idle(SeqProducer) /\ ppc'[SeqProducer] = "idle"

\* C4: app_redraw, called by a single producer with no interleaving.  With a
\* redraw queued that is not the last entry, the call removes that node and
\* appends a new redraw at the tail, the other events keeping their order;
\* with the queued redraw last, the queue is left as it was; with no redraw
\* queued, one is appended.  After a call that appended, the tail is a redraw.
\* A call whose allocation fails appends nothing.
C4_RedrawCoalesce ==
    [][(SeqReturns /\ pre.op = RedrawOp) =>
        LET q == pre.events
            i == FirstOfType(q, "event_redraw")
            node == [RedrawEvent EXCEPT !.seq = pre.nappend + 1]
        IN  CASE ppc[SeqProducer] = "rd_scan" ->
                    /\ i # 0
                    /\ i = Len(q)
                    /\ events' = q
                    /\ nappend' = pre.nappend
              [] ppc[SeqProducer] = "ap_raise" ->
                    /\ i # Len(q) \/ i = 0
                    /\ events' = NonRedraw(q) \o <<node>>
                    /\ Len(events') = IF i = 0 THEN Len(q) + 1 ELSE Len(q)
                    /\ events'[Len(events')].type = "event_redraw"
                    /\ event_signal'
              [] ppc[SeqProducer] = "ap_malloc" ->
                    /\ i # Len(q) \/ i = 0
                    /\ events' = NonRedraw(q)
                    /\ nappend' = pre.nappend
              [] OTHER -> FALSE]_vars

\* The types of the events of a queue, head first.
Types(head) == [i \in 1..Len(head) |-> head[i].type]

\* C4, witness: resize, redraw, drag(1,1) were queued, app_redraw was called
\* and has returned, and the queue is resize, drag(1,1), redraw.
C4_Witness ==
    /\ Idle(SeqProducer)
    /\ pre.op = RedrawOp
    /\ Types(pre.events) = <<"event_resize", "event_redraw", "event_drag">>
    /\ Types(events) = <<"event_resize", "event_drag", "event_redraw">>
    /\ events[2].dx = 1 /\ events[2].dy = 1
    /\ QueueSeqs = <<1, 3, 4>>

\* C5: app_on_drag(dx, dy), called by a single producer with no interleaving.
\* With a drag queued, its deltas become the sums, in place: same length, same
\* position, no node appended, the notification as it was.  With no drag
\* queued, a drag node with (dx, dy) is appended at the tail (nothing is, when
\* the allocation fails).
C5_DragMerge ==
    [][(SeqReturns /\ pre.op[1] = "app_on_drag") =>
        LET q == pre.events
            i == FirstOfType(q, "event_drag")
            dx == pre.op[2]
            dy == pre.op[3]
            node == [DragEvent(dx, dy) EXCEPT !.seq = pre.nappend + 1]
        IN  CASE ppc[SeqProducer] = "dg_scan" ->
                    /\ i # 0
                    /\ Len(events') = Len(q)
                    /\ \A j \in 1..Len(q) : j # i => events'[j] = q[j]
                    /\ events'[i] =
                          [q[i] EXCEPT !.dx = q[i].dx + dx, !.dy = q[i].dy + dy]
                    /\ nappend' = pre.nappend
                    /\ event_signal' = pre.event_signal
              [] ppc[SeqProducer] = "ap_raise" ->
                    /\ i = 0
                    /\ events' = q \o <<node>>
                    /\ event_signal'
              [] ppc[SeqProducer] = "ap_malloc" ->
                    /\ i = 0
                    /\ events' = q
                    /\ nappend' = pre.nappend
              [] OTHER -> FALSE]_vars

\* C5, witness: drag(3,4) was queued alone, app_on_drag(-1, 2) was called and
\* has returned, and the queue is the same node with (2,6).
C5_Witness ==
    /\ Idle(SeqProducer)
    /\ pre.op = <<"app_on_drag", -1, 2>>
    /\ Len(pre.events) = 1
    /\ pre.events[1].type = "event_drag"
    /\ pre.events[1].dx = 3 /\ pre.events[1].dy = 4
    /\ Len(events) = 1
    /\ events[1].dx = 2 /\ events[1].dy = 6
    /\ events[1].seq = pre.events[1].seq
    /\ NothingDequeued

\* The loop of app_run is running or about to be entered.
LoopRunning == state = "loop_run" /\ ~Returned

\* The node with append stamp n has left the queue and the consumer's hands:
\* it was dispatched, or removed by app_redraw.
Handled(n) == ~InQueue(n) /\ entry.seq # n

\* Append stamps a behaviour of the fair specifications can give out.
FairNodes == 1..(2 * MaxFairCalls + MaxSignals)

\* C6: under fair scheduling, every event that is in the queue while the loop
\* is running is eventually dispatched (or coalesced away by app_redraw), or
\* the loop leaves the running state first.
C6_EventuallyDispatched ==
    \A n \in FairNodes :
        (InQueue(n) /\ LoopRunning) ~> (Handled(n) \/ ~LoopRunning)

\* A context is between its list insertion and its notification_raise.
RaisePending == \E t \in Contexts : ppc[t] = "ap_raise"

\* The consumer is inside handle_event_queue.
InHandleEventQueue ==
    cpc \in {"hq_reset", "hq_check", "hq_lock", "hq_pop", "hq_dispatch",
             "hq_free"}

\* No wakeup is lost while the loop is running: a non-empty queue has a raise
\* still to come, a pending notification, or the consumer in the drain.
NoLostWakeup ==
    (events # <<>> /\ LoopRunning) =>
        (RaisePending \/ event_signal \/ InHandleEventQueue)

\* on_signal waits for the mutex held by the thread it has interrupted.
SelfDeadlock ==
    /\ interrupted # NoThread
    /\ events_lock = interrupted
    /\ ppc[Sig] = "ap_lock"

\* Every queued event is eventually dispatched in the behaviours where
\* on_signal never interrupts the holder of the mutex.
EventuallyDispatchedOrDeadlock ==
    \A n \in FairNodes :
        (InQueue(n) /\ LoopRunning) ~>
            (Handled(n) \/ ~LoopRunning \/ SelfDeadlock)

\* C7: every image passed to app_on_load is released exactly once: never
\* twice, and once app_destroy has run none is left unreleased.
C7_ReleasedExactlyOnce ==
    /\ \A im \in Images : released[im] <= 1
    /\ cpc = "destroyed" => \A im \in 1..nimages : released[im] = 1

\* No image is released twice.
ReleasedAtMostOnce == \A im \in Images : released[im] <= 1

\* A step of app_run's scan that invokes a callback.
CallbackInvoked ==
    /\ cpc = "scan"
    /\ \/ cpc' = "hq_reset"
       \/ cpc' = "scan" /\ idx' = idx + 1 /\ fds[idx]

\* C8: once a callback has called app_exit, app_run invokes no further
\* callback in the cycle and performs no further wait, it returns, and it
\* returns false when the code is not zero (true when it is zero).
C8_ExitTruncatesCycle ==
    /\ [][exits # <<>> => ~CallbackInvoked]_vars
    /\ [](exits # <<>> => cpc # "poll" /\ state = ExitState(exits[Len(exits)]))
    /\ []((exits # <<>> /\ Returned) => ret = (exits[Len(exits)] = 0))
    /\ (exits # <<>>) ~> Returned

\* C8, witness: the first callback of a cycle called app_exit(1) with the
\* second descriptor ready; the second callback was not invoked and app_run
\* has returned false.
C8_Witness ==
    /\ cpc = "returned"
    /\ exits = <<1>>
    /\ ret = FALSE
    /\ idx = 2
    /\ fds[2]
    /\ lastDispatched = 0

\* C9: app_run returns with the loop state stopped or error, or, when the
\* poll array could not be allocated, with false before the loop was entered;
\* its result is true exactly when the loop ended in the stopped state.
C9_ReturnValue ==
    Returned =>
        /\ ret = (state = "loop_stop")
        /\ state = "loop_run" => fds = <<>> /\ pollEvent = "none"
        /\ ret = FALSE => state = "loop_error" \/ fds = <<>>

\* C9, witness: the loop dispatched events, was stopped, and app_run has
\* returned true.
C9_Witness ==
    /\ cpc = "returned"
    /\ ret = TRUE
    /\ state = "loop_stop"
    /\ lastDispatched > 0

\* C10: a poll that fails with EINTR leaves the loop state running and the
\* loop goes on to the next poll (unless a callback ends it); a poll that
\* fails otherwise sets the error state, after which no callback is invoked,
\* the completion hook (ui_event_done, in run_scan_done) is not called, and
\* app_run returns false.
C10_PollFailure ==
    /\ [][(cpc = "poll" /\ pollEvent' = "eintr" /\ cpc' # "poll") =>
            (state' = "loop_run" /\ state = "loop_run" /\ cpc' = "scan")]_vars
    /\ (pollEvent = "eintr" /\ cpc = "scan") ~> (cpc = "poll" \/ exits # <<>>)
    /\ [](pollEvent = "error" =>
            /\ state = "loop_error"
            /\ cpc \in {"exit", "returned", "destroyed"}
            /\ Returned => ret = FALSE)
    /\ [][pollEvent' = "error" => ~CallbackInvoked /\ cpc # "scan"]_vars
    /\ (pollEvent = "error") ~> Returned

\* C10, witness: events were dispatched, then a poll failed, and app_run has
\* returned false with no app_exit call made.
C10_Witness ==
    /\ cpc = "returned"
    /\ pollEvent = "error"
    /\ ret = FALSE
    /\ exits = <<>>
    /\ lastDispatched > 0

\* app_run is inside its loop.
InLoop == ~(cpc \in {"start", "exit", "returned", "destroyed"})

\* C11: while app_run is in its loop, the poll array has one entry for each
\* registered descriptor, in registration order, so that the count passed to
\* poll and the bound of the scan never exceed the size of the array.
C11_PollArrayMatchesWatches == InLoop => Len(fds) = Len(wfds)

\* The scan in app_run never reads an entry beyond the poll array.
ScanInBounds ==
    (cpc = "scan" /\ ScanCondition) => idx \in DOMAIN fds

\* C12: no context ever waits for the queue mutex for ever; in particular
\* on_signal never waits for the mutex held by the thread it runs on.
C12_NoSelfDeadlock == ~SelfDeadlock

\* What on_signal has left to append is a suffix of the signal's action
\* sequence, and the event it is appending is an action event: the handler
\* enqueues the actions in order and executes none of them.
SignalOnlyEnqueues ==
    ~Idle(Sig) =>
        /\ pev[Sig].type = "event_action"
        /\ \E signum \in Signals :
              \E k \in 1..Len(SigAction(signum)) :
                  /\ pev[Sig].action = SigAction(signum)[k]
                  /\ pseq[Sig] =
                        SubSeq(SigAction(signum), k + 1, Len(SigAction(signum)))

\* The consumer dispatches the popped entry.
DispatchStep == cpc = "hq_dispatch" /\ cpc' = "hq_free"

\* Where the switch of apply_common_action and the call in handle_event_queue
\* send an event while handler is the active mode handler.
ExpectedRoute(event, handler) ==
    IF /\ event.type = "event_action"
       /\ event.action \in {"action_info", "action_status",
                            "action_fullscreen", "action_help", "action_exit"}
    THEN "common"
    ELSE handler

\* C13: a drained action event of a common type (info, status, fullscreen,
\* help, exit) is handled by the common handler and not forwarded; every other
\* drained event is forwarded exactly once to the mode handler that is active
\* when it is dispatched; no event is handled by both and none is dropped.
C13_DispatchRoute ==
    /\ [][DispatchStep =>
            /\ lastRoute = "none"
            /\ lastRoute' = ExpectedRoute(entry, mode)]_vars
    /\ [][DispatchStep /\ lastRoute' = "common" =>
            UNCHANGED <<released, mode, activations>>]_vars
    /\ [][lastRoute' # lastRoute =>
            \/ DispatchStep
            \/ cpc = "hq_pop" /\ lastRoute' = "none"]_vars
    /\ [](cpc = "hq_free" => lastRoute # "none")

\* An event that is not a common action was forwarded to the gallery, the
\* handler active since a switch, and a common one was handled before.
C13_Witness ==
    /\ cpc = "hq_free"
    /\ entry.type = "event_action"
    /\ entry.action = "action_reload"
    /\ lastRoute = "gallery_handle"
    /\ Len(activations) = 1
    /\ help_active

\* A call of app_switch_mode is made in this step.
SwitchStep == Len(activations') = Len(activations) + 1

\* The last switch made.
LastSwitch == activations[Len(activations)]

\* C14: app_switch_mode(index) toggles the active handler between viewer and
\* gallery and delivers exactly one activate event carrying that index to the
\* handler active after the switch, never to the previous one; events
\* dispatched afterwards go to the new handler; a second call restores the
\* handler of before the first.
C14_SwitchMode ==
    /\ [][activations' # activations => SwitchStep]_vars
    /\ [][mode' # mode => SwitchStep]_vars
    /\ [][SwitchStep =>
            /\ mode' # mode
            /\ {mode, mode'} = ModeHandlers
            /\ SubSeq(activations', 1, Len(activations)) = activations
            /\ activations'[Len(activations')].event.type = "event_activate"
            /\ activations'[Len(activations')].event.index
                  = activations'[Len(activations')].arg
            /\ activations'[Len(activations')].to = mode'
            /\ activations'[Len(activations')].to # mode]_vars
    /\ [][DispatchStep /\ lastRoute' # "common" /\ activations # <<>> =>
            lastRoute' = LastSwitch.to]_vars
    /\ [][SwitchStep /\ activations # <<>> => mode' = LastSwitch.from]_vars

\* Two switches were made from the gallery, and an event queued before the
\* second one was dispatched to the handler restored by it.
C14_Witness ==
    /\ Len(activations) = 2
    /\ activations[1].from = "gallery_handle"
    /\ activations[1].arg # activations[2].arg
    /\ mode = "gallery_handle"
    /\ cpc = "hq_free"
    /\ lastRoute = "gallery_handle"
    /\ entry.type = "event_resize"

\* The scaled size of the image: scale * native size, truncated.
ScaledWidth == Scaled(canvas.scale, canvas.image.width)
ScaledHeight == Scaled(canvas.scale, canvas.image.height)

\* An operation was made on the canvas.
AfterOperation == canvas_op # "none"

\* C15: after any viewport operation, on each axis where the scaled size of
\* the image is at most the size of the window, the position of the image is
\* window size / 2 - scaled size / 2.
C15_CenteredWhenFits ==
    AfterOperation =>
        /\ ScaledWidth <= canvas.window.width =>
              canvas.image.x
                 = (canvas.window.width \div 2) - (ScaledWidth \div 2)
        /\ ScaledHeight <= canvas.window.height =>
              canvas.image.y
                 = (canvas.window.height \div 2) - (ScaledHeight \div 2)

\* A drag was made on an image smaller than the window on both axes, which
\* is centred off the origin.
C15_Witness ==
    /\ canvas_op = "canvas_drag"
    /\ 0 < ScaledWidth /\ ScaledWidth < canvas.window.width
    /\ 0 < ScaledHeight /\ ScaledHeight < canvas.window.height
    /\ canvas.image.x = (canvas.window.width \div 2) - (ScaledWidth \div 2)
    /\ canvas.image.y = (canvas.window.height \div 2) - (ScaledHeight \div 2)
    /\ canvas.image.x > 0 /\ canvas.image.y > 0

\* C16: after any viewport operation, on each axis where the scaled size of
\* the image is greater than the size of the window, the image covers the
\* window: position <= 0 and position + scaled size >= window size.
C16_CoversWindow ==
    AfterOperation =>
        /\ ScaledWidth > canvas.window.width =>
              /\ canvas.image.x <= 0
              /\ canvas.image.x + ScaledWidth >= canvas.window.width
        /\ ScaledHeight > canvas.window.height =>
              /\ canvas.image.y <= 0
              /\ canvas.image.y + ScaledHeight >= canvas.window.height

\* C17: fix_viewport is idempotent: for every scale, image size, window size
\* and position a second application gives the position of the first, and
\* every state an operation leaves is a fixed point of fix_viewport.
C17_FixViewportIdempotent ==
    /\ [](fix_viewport(fix_viewport(canvas)) = fix_viewport(canvas))
    /\ [](AfterOperation => fix_viewport(canvas) = canvas)
    /\ [][canvas_op = "fix_viewport" /\ canvas_op' = "fix_viewport" =>
            canvas' = canvas]_vars

\* fix_viewport was applied twice to an image larger than the window that
\* was left of it, and the first application moved it to the right edge.
C17_Witness ==
    /\ canvas_op = "fix_viewport"
    /\ canvas_ops = 2
    /\ ScaledWidth > canvas.window.width
    /\ canvas.image.x = canvas.window.width - ScaledWidth
    /\ ~(canvas.image.x \in FixPositions)

\* min_scale of the image: max(MIN_SCALE / width, MIN_SCALE / height).
MinScale ==
    fmax(FDiv(IntToFloat(MIN_SCALE), IntToFloat(canvas.image.width)),
         FDiv(IntToFloat(MIN_SCALE), IntToFloat(canvas.image.height)))

\* The scale is within [min_scale, MAX_SCALE].
ScaleInRange ==
    /\ ~FLess(canvas.scale, MinScale)
    /\ ~FLess(IntToFloat(MAX_SCALE), canvas.scale)

\* C18: after reset_image on an image with non-zero dimensions and any
\* sequence of operations that follows, the scale is within
\* [min_scale, 100.0].
C18_ScaleInRange == HasImage => ScaleInRange

\* The scaled image is larger than the window on both axes.
LargerThanWindow(c) ==
    /\ Scaled(c.scale, c.image.width) > c.window.width
    /\ Scaled(c.scale, c.image.height) > c.window.height

\* The point of the image under the centre of the window, on each axis:
\* (window / 2 - position) / scale.
AnchorX(c) == FDiv(IntToFloat((c.window.width \div 2) - c.image.x), c.scale)
AnchorY(c) == FDiv(IntToFloat((c.window.height \div 2) - c.image.y), c.scale)

\* Two coordinates differ by at most one pixel.
WithinOnePixel(a, b) ==
    /\ ~FLess(IntToFloat(1), FSub(a, b))
    /\ ~FLess(IntToFloat(1), FSub(b, a))

\* The point of the image that was under the centre of the window in c is
\* in d within one pixel of the image of the point under the centre, or is
\* drawn within one pixel of the window of the centre.
SameAnchor(c, d) ==
    /\ \/ WithinOnePixel(AnchorX(c), AnchorX(d))
       \/ WithinOnePixel(FMul(AnchorX(c), d.scale), FMul(AnchorX(d), d.scale))
    /\ \/ WithinOnePixel(AnchorY(c), AnchorY(d))
       \/ WithinOnePixel(FMul(AnchorY(c), d.scale), FMul(AnchorY(d), d.scale))

\* This step is zoom(percent), and its call of fix_viewport moved nothing.
ZoomUnclamped(percent) ==
    /\ canvas_op' = "zoom"
    /\ canvas_ops' = canvas_ops + 1
    /\ canvas' \in zoom(canvas, percent)
    /\ canvas' \in ZoomMoved(canvas, percent)

\* The state of the example: window 800x600, image 1600x1200, scale 0.5,
\* position (0, 0).
ZoomExample ==
    /\ canvas.window = [width |-> 800, height |-> 600]
    /\ canvas.image = [x |-> 0, y |-> 0, width |-> 1600, height |-> 1200]
    /\ canvas.scale = FDiv(IntToFloat(1), IntToFloat(2))

\* C19: zoom keeps the point of the image under the centre of the window:
\* when the scaled image is larger than the window on both axes before and
\* after zoom(percent) and fix_viewport does not move the image, that point
\* is the same before and after up to one pixel, counted in pixels of the
\* image or of the window, whichever is met; and from window 800x600,
\* image 1600x1200, scale 0.5, position (0, 0), zoom(10) gives scale 0.55 and
\* position (-40, -30).
C19_ZoomKeepsAnchor ==
    /\ [][\A percent \in ZoomPercents :
            /\ ZoomUnclamped(percent)
            /\ LargerThanWindow(canvas)
            /\ LargerThanWindow(canvas')
            => SameAnchor(canvas, canvas')]_vars
    /\ [][ZoomExample /\ canvas_op' = "zoom" /\ canvas_ops' = canvas_ops + 1
          /\ canvas' \in zoom(canvas, 10)
            => /\ canvas'.scale = FDiv(IntToFloat(11), IntToFloat(20))
               /\ canvas'.image.x = -40
               /\ canvas'.image.y = -30]_vars

\* a and b are equal up to the rounding of two float operations: they differ
\* by at most b * 2^-22.
FClose(a, b) ==
    LET diff == IF FLess(a, b) THEN FSub(b, a) ELSE FSub(a, b)
    IN  ~FLess(FMul(b, Float(1, MantMin, -(FLT_MANT_DIG + 21))), diff)

\* min(window.width / image.width, window.height / image.height, 1.0), each
\* quotient rounded to float.
OptimalScale(c) ==
    fmin(fmin(FDiv(IntToFloat(c.window.width), IntToFloat(c.image.width)),
              FDiv(IntToFloat(c.window.height), IntToFloat(c.image.height))),
         IntToFloat(1))

\* What set_scale(fit_optimal) is to leave.
FitsOptimally(c) ==
    LET width == Scaled(c.scale, c.image.width)
        height == Scaled(c.scale, c.image.height)
    IN  /\ FClose(c.scale, OptimalScale(c))
        /\ ~FLess(IntToFloat(1), c.scale)
        /\ width <= c.window.width
        /\ height <= c.window.height
        /\ c.image.x = (c.window.width \div 2) - (width \div 2)
        /\ c.image.y = (c.window.height \div 2) - (height \div 2)

\* This step is set_scale(fit_optimal), called by canvas_zoom or by
\* canvas_reset_image.
SetScaleOptimal ==
    /\ canvas_ops' = canvas_ops + 1
    /\ \/ /\ canvas_op' = "set_scale"
          /\ canvas' = set_scale(canvas, "scale_fit_optimal")
       \/ /\ canvas_op' = "canvas_reset_image"
          /\ canvas.initial_scale = "scale_fit_optimal"

\* C20: set_scale(fit_optimal) sets the scale to
\* min(window.width / image.width, window.height / image.height, 1.0): the
\* scale is at most 1.0, the scaled image fits the window on both axes and is
\* centred on both; in a window of 1000x1000, reset_image(2000, 500) with the
\* initial scale fit_optimal gives scale 0.5 and position (0, 375) whatever
\* the scale and the position were before.
C20_FitOptimal ==
    /\ [][SetScaleOptimal => FitsOptimally(canvas')]_vars
    /\ [][(/\ canvas_op' = "canvas_reset_image"
           /\ canvas_ops' = canvas_ops + 1
           /\ canvas.initial_scale = "scale_fit_optimal"
           /\ canvas.window = [width |-> 1000, height |-> 1000]
           /\ canvas'.image.width = 2000
           /\ canvas'.image.height = 500)
            => /\ canvas'.scale = FDiv(IntToFloat(1), IntToFloat(2))
               /\ canvas'.image.x = 0
               /\ canvas'.image.y = 375]_vars

\* reset_image(2000, 500) was made in a window of 1000x1000 after three
\* other operations, and left scale 0.5 and position (0, 375).
C20_Witness ==
    /\ canvas_op = "canvas_reset_image"
    /\ canvas_ops = 4
    /\ canvas.initial_scale = "scale_fit_optimal"
    /\ canvas.window = [width |-> 1000, height |-> 1000]
    /\ canvas.image = [x |-> 0, y |-> 375, width |-> 2000, height |-> 500]
    /\ canvas.scale = FDiv(IntToFloat(1), IntToFloat(2))

(***************************************************************************)
(* canvas_reset_window, canvas_move, canvas_drag: the values returned.     *)
(***************************************************************************)
\* This step is a call of the operation called name.
CanvasStep(name) == canvas_op' = name /\ canvas_ops' = canvas_ops + 1

\* C21: canvas_reset_window returns true on the first call ever made and
\* false on every later call, for every sequence of window sizes passed,
\* a width of 0 included.
C21_FirstCallOnly ==
    [][CanvasStep("canvas_reset_window") =>
           (canvas_call'.ret = ~window_was_reset)]_vars

\* The scaled image fits the window on both axes.
FitsWindow ==
    /\ ScaledWidth <= canvas.window.width
    /\ ScaledHeight <= canvas.window.height

\* The step changed nothing of the canvas but the position of the image.
OnlyPositionChanged ==
    /\ canvas'.scale = canvas.scale
    /\ canvas'.initial_scale = canvas.initial_scale
    /\ canvas'.window = canvas.window
    /\ canvas'.image.width = canvas.image.width
    /\ canvas'.image.height = canvas.image.height

\* The position differs from the one before the step.
PositionChanged ==
    \/ canvas'.image.x # canvas.image.x
    \/ canvas'.image.y # canvas.image.y

\* canvas_move(horizontal, percent): the coordinate of the chosen axis is the
\* one of before plus (window size div 100) * percent, clamped; the other
\* coordinate is the one of before.
MovedAlongAxis(horizontal, percent) ==
    IF horizontal
    THEN /\ canvas'.image.y = canvas.image.y
         /\ canvas'.image.x =
               fix_axis(canvas.image.x
                           + (canvas.window.width \div 100) * percent,
                        ScaledWidth, canvas.window.width)
    ELSE /\ canvas'.image.x = canvas.image.x
         /\ canvas'.image.y =
               fix_axis(canvas.image.y
                           + (canvas.window.height \div 100) * percent,
                        ScaledHeight, canvas.window.height)

\* C22: canvas_move changes only the coordinate of the chosen axis, by
\* (window size div 100) * percent followed by the clamp pass; canvas_move
\* and canvas_drag return true exactly when the position after clamping
\* differs from the position before the call; when the scaled image fits the
\* window on both axes they return false and leave the position unchanged.
C22_MoveFrameAndReturn ==
    [][/\ CanvasStep("canvas_move") =>
             /\ OnlyPositionChanged
             /\ MovedAlongAxis(canvas_call'.horizontal, canvas_call'.percent)
       /\ (CanvasStep("canvas_move") \/ CanvasStep("canvas_drag")) =>
             /\ OnlyPositionChanged
             /\ canvas_call'.ret = PositionChanged
             /\ FitsWindow => (~canvas_call'.ret /\ ~PositionChanged)]_vars

\* A vertical move of an image larger than the window returned true, the
\* horizontal position being the one of before.
C22_Witness ==
    /\ canvas_op = "canvas_move"
    /\ ~canvas_call.horizontal
    /\ canvas_call.ret
    /\ ScaledHeight > canvas.window.height
    /\ canvas.image.y < 0

\* C29: zoom is monotone in the sign of its argument from every reachable
\* state of the viewport, the states whose scale set_scale produced
\* included: zoom(percent) with percent > 0 never decreases the scale, and
\* zoom(percent) with percent < 0 never increases it.
C29_ZoomMonotone ==
    [][CanvasStep("zoom") =>
          /\ canvas_call'.percent > 0 => ~FLess(canvas'.scale, canvas.scale)
          /\ canvas_call'.percent < 0 => ~FLess(canvas.scale, canvas'.scale)]_vars

(***************************************************************************)
(* The mutex and the dispatch.                                             *)
(***************************************************************************)
\* The consumer is in the dispatch of a popped entry: the handler is about
\* to be called, or it was called and the entry is not freed yet.
InDispatch == cpc \in {"hq_dispatch", "hq_free"}

\* A context is in one of the critical sections of the append entry points.
InAppendSection(t) == ppc[t] \in {"rd_scan", "dg_scan", "ap_insert"}

\* A context is waiting for the mutex in an append entry point.
AtLockRequest(t) == ppc[t] \in {"rd_lock", "dg_lock", "ap_lock"}

\* The mutex is held by the consumer only around the head removal and, while
\* a handler appends, in the critical sections of that append.
ConsumerLockScope ==
    /\ events_lock = Main => (cpc = "hq_pop" \/ InAppendSection(Main))
    /\ cpc = "hq_pop" => events_lock = Main
    /\ cpc = "hq_dispatch" => events_lock # Main
    /\ (InDispatch /\ AtLockRequest(Main)) => events_lock # Main

\* The consumer takes the mutex in handle_event_queue once for each iteration
\* and gives it back in the step that removes the head.
LockedOncePerEntry ==
    /\ (cpc = "hq_lock" /\ cpc' # "hq_lock") =>
          (cpc' = "hq_pop" /\ events_lock = NoThread /\ events_lock' = Main)
    /\ (cpc = "hq_pop" /\ cpc' # "hq_pop") =>
          (events_lock = Main /\ events_lock' = NoThread)

\* C23: the consumer never holds the queue mutex while an event handler is
\* executing: handle_event_queue takes and releases it once for each popped
\* event, around the head removal only.  So a producer is not kept waiting by
\* the consumer for the time of a dispatch, and a handler that appends (a
\* common action calling app_redraw) does not wait for a mutex its own thread
\* holds: under fair scheduling every dispatch ends.
C23_NoLockAcrossDispatch ==
    /\ []ConsumerLockScope
    /\ [][LockedOncePerEntry]_vars
    /\ InDispatch ~> ~InDispatch

\* A producer took the mutex while the consumer was between the call of a
\* handler and the free of the entry, the handler having appended a redraw.
C23_Witness ==
    /\ cpc = "hq_free"
    /\ entry.action = "action_info"
    /\ ppc[Main] = "ap_raise"
    /\ \E t \in Producers : events_lock = t

(***************************************************************************)
(* The drain after app_exit.                                               *)
(***************************************************************************)
\* app_exit was called, and first by the dispatch of an event.
AfterExit == exits # <<>> /\ exitCaller = "handler"

\* The consumer takes the head of the queue.
PopStep == cpc = "hq_pop" /\ cpc' = "hq_dispatch"

\* The step is app_destroy.
DestroyStep == cpc = "returned" /\ cpc' = "destroyed"

\* Every node of the queue is in the queue after the step.
QueueKept ==
    \A i \in 1..Len(events) :
        \E j \in 1..Len(events') : events'[j].seq = events[i].seq

\* Every node of the queue is in the queue after the step, but a redraw that
\* the scan of an app_redraw call removed.
QueueKeptButRedraw ==
    \A i \in 1..Len(events) :
        \/ \E j \in 1..Len(events') : events'[j].seq = events[i].seq
        \/ /\ events[i].type = "event_redraw"
           /\ \E t \in Contexts : ppc[t] = "rd_scan" /\ ppc'[t] # "rd_scan"

\* C24: handle_event_queue stops dispatching as soon as the loop state is no
\* longer running: once a dispatched event has caused app_exit, no event
\* queued behind it is dispatched, in that drain or later in the run; those
\* events remain in the queue until app_destroy.
C24_StopsAfterExit ==
    /\ [][AfterExit => (~DispatchStep /\ ~PopStep)]_vars
    /\ [][(AfterExit /\ ~DestroyStep) => QueueKept]_vars

\* C24 as amended: no event queued behind is taken or dispatched by the
\* consumer; each stays in the queue until app_destroy, but a queued redraw
\* that a later app_redraw call removes when it appends its own.
C24_StopsAfterExitButRedraw ==
    /\ [][AfterExit => (~DispatchStep /\ ~PopStep)]_vars
    /\ [][(AfterExit /\ ~DestroyStep) => QueueKeptButRedraw]_vars

\* The drain is about to end on the loop state with two events queued behind
\* the one whose handler called app_exit.
C24_Witness ==
    /\ cpc = "hq_check"
    /\ AfterExit
    /\ lastDispatched > 0
    /\ Len(events) >= 2

(***************************************************************************)
(* The allocation failure in append_event.                                 *)
(***************************************************************************)
\* malloc returns NULL in the call the producer of SeqSpec is in, and the
\* entry point returns.
AllocationFailed ==
    ppc[SeqProducer] = "ap_malloc" /\ ppc'[SeqProducer] = "idle"

\* The queue and the notification are what they were when the call was made.
CallLeftQueue ==
    /\ events' = pre.events
    /\ event_signal' = pre.event_signal

\* C25: when the allocation of the queue node fails, an append operation
\* drops the new event only: the queue is exactly what it was before the
\* call, no pending event removed or altered, and the notification is not
\* raised.
C25_FailedAppendDropsOnlyNew == [][AllocationFailed => CallLeftQueue]_vars

(***************************************************************************)
(* The callbacks of a poll cycle.                                          *)
(***************************************************************************)
\* The wait of the current cycle reported descriptor i ready: a wait that
\* was interrupted reported nothing.
Reported(i) == pollEvent = "ok" /\ i \in DOMAIN fds /\ fds[i]

\* The scan passes entry idx without calling its callback.
CallbackSkipped ==
    cpc = "scan" /\ cpc' = "scan" /\ idx' = idx + 1 /\ ~CallbackInvoked

\* C26: in each poll cycle the callbacks invoked are exactly those of the
\* descriptors the wait of that cycle reported ready, each at most once, in
\* registration order, until the loop state leaves running; after a wait that
\* was interrupted and reported nothing, no callback is invoked on the basis
\* of a report of an earlier cycle.
C26_CallbacksOfThisCycle ==
    /\ [][CallbackInvoked => Reported(idx)]_vars
    /\ [][CallbackSkipped => ~Reported(idx)]_vars
    /\ [][(cpc = "poll" /\ cpc' = "scan") => idx' = 1]_vars
    /\ [][(cpc = "scan" /\ idx' # idx) => idx' = idx + 1]_vars
    /\ [][(cpc = "scan" /\ cpc' = "loop") =>
             (state # "loop_run" \/ idx = Len(wfds) + 1)]_vars

(***************************************************************************)
(* The loop state.                                                         *)
(***************************************************************************)
\* The loop state has left running.
Terminal == state \in {"loop_stop", "loop_error"}

\* The loop states the app_exit calls made so far have set, in call order.
StatesSet == [i \in 1..Len(exits) |-> ExitState(exits[i])]

\* C27: the loop states stopped and error are terminal within a run:
\* app_exit(code) sets stopped for code zero and error otherwise, and once
\* the state is stopped or error it never returns to running and never
\* changes from one to the other, whatever the sequence of app_exit calls of
\* the handlers and callbacks.  The calls of one handler are one step, so
\* the states between them are read from the calls recorded.
C27_TerminalStates ==
    /\ [][exits' # exits => state' = ExitState(exits'[Len(exits')])]_vars
    /\ [][Terminal => state' = state]_vars
    /\ [](\A i \in 1..Len(exits) : StatesSet[i] = StatesSet[1])

(***************************************************************************)
(* C28: the displacement of the drags is conserved.                        *)
(***************************************************************************)
\* The sum of the deltas of the drag events of a queue.
RECURSIVE SumOfDrags(_)
SumOfDrags(head) ==
    IF head = <<>>
    THEN <<0, 0>>
    ELSE Add2(IF head[1].type = "event_drag"
              THEN <<head[1].dx, head[1].dy>>
              ELSE <<0, 0>>,
              SumOfDrags(Tail(head)))

\* The deltas of the drag entry the consumer has popped and not yet
\* dispatched.
DragInHand ==
    IF cpc = "hq_dispatch" /\ entry.type = "event_drag"
    THEN <<entry.dx, entry.dy>>
    ELSE <<0, 0>>

\* The contexts inside app_on_drag whose deltas have reached no node yet:
\* before the scan has merged them, or before append_event has inserted them.
DragNotApplied ==
    {t \in Contexts : /\ pev[t].type = "event_drag"
                      /\ ppc[t] \in {"dg_lock", "dg_scan", "ap_malloc",
                                     "ap_lock", "ap_insert"}}

\* The sum of the deltas of a set of contexts inside app_on_drag.
RECURSIVE SumOfCalls(_)
SumOfCalls(ts) ==
    IF ts = {}
    THEN <<0, 0>>
    ELSE LET t == CHOOSE u \in ts : TRUE
         IN  Add2(<<pev[t].dx, pev[t].dy>>, SumOfCalls(ts \ {t}))

\* The queue exists and no drag was dropped by a failed malloc.
DragsAccounted == drags.kept /\ drags.failed = 0 /\ cpc # "destroyed"

\* Every call of app_on_drag has returned and the consumer holds no popped
\* entry it has not dispatched.
DragsAtRest == (\A t \in Contexts : Idle(t)) /\ cpc # "hq_dispatch"

\* The deltas dispatched, in the consumer's hands and queued add up to the
\* deltas of the calls that have merged or inserted theirs.
DragsConserved ==
    DragsAccounted =>
        Add2(Add2(drags.dispatched, DragInHand),
             Add2(SumOfDrags(events), SumOfCalls(DragNotApplied)))
            = drags.requested

\* With every call returned: dispatched plus queued equals requested.
DragsConservedAtRest ==
    DragsAccounted /\ DragsAtRest =>
        Add2(drags.dispatched, SumOfDrags(events)) = drags.requested

\* No step changes the entry the consumer has popped.
PoppedEntryKept == cpc = "hq_dispatch" => entry' = entry

\* C28: without allocation failure (the deltas of the model are far from
\* overflow), the sum of the deltas of the drag events dispatched plus those
\* still queued equals the sum of the (dx, dy) of the app_on_drag calls that
\* have returned, a call in progress counting from the step that merges or
\* inserts its deltas; and no merge is applied to the node the consumer has
\* popped.
C28_DragsConserved ==
    /\ []DragsConserved
    /\ []DragsConservedAtRest
    /\ [][PoppedEntryKept]_vars

\* Two calls were merged in one node, whose dispatch delivered both deltas.
C28_Witness ==
    /\ DragsAccounted
    /\ DragsAtRest
    /\ nappend = 1
    /\ drags.requested = <<4, 5>>
    /\ drags.dispatched = <<4, 5>>
====
